---- MODULE Spec2Model ----
(***************************************************************************)
(* Verification model of the BV-BRC search scripts (Copper_SOD1):          *)
(*   robust_api_handler.py   RobustBVBRCHandler (retrying HTTP client)     *)
(*   shared_utilities.py     BVBRCUtils (batch search, genome-role matrix) *)
(*   full_genome_search_parallel_progress.py  (rate limiter, parallel run) *)
(* Times are in tenths of a second (1.0 s = 10).                           *)
(***************************************************************************)
EXTENDS Integers, Sequences, FiniteSets, TLC

VARIABLES
    \* ---- RobustBVBRCHandler.robust_api_call ----
    stats,      \* self.stats
    c_pc,       \* position in robust_api_call: "idle", "loop", "request", "returned"
    attempt,    \* loop variable of robust_api_call
    c_hist,     \* outcomes of the HTTP attempts of the current invocation
    c_delays,   \* backoff sleeps of the current invocation: [jitter, delay]
    c_ret,      \* value returned by the current invocation: <<success, data>>
    stats0,     \* self.stats when the current invocation started
    \* ---- the batching of an entity list ----
    p_ids,      \* genome_ids
    p_size,     \* batch_size
    p_batches,  \* batches (None until built)
    p_pc,       \* "start", "done"
    \* ---- BVBRCUtils.create_genome_role_matrix ----
    m_tracks,   \* track_results_list
    m_genomes,  \* genome_ids
    m_out,      \* the dictionary returned (None until the call)
    m_pc,       \* "input", "done"
    \* ---- BVBRCUtils.batch_search_across_genomes ----
    s_terms,    \* search_terms
    s_genomes,  \* genome_ids
    s_type,     \* search_type
    s_pc,       \* "loop", "http", "summary", "done", "matrix", "raised"
    s_exc,      \* the exception that left the function (None if none)
    s_i,        \* enumerate(search_terms, 1): i
    s_k,        \* position of the next genome of the term
    s_attempt,  \* attempt of the robust_api_call in progress
    s_acc,      \* term_results, term_features, genome_coverage of the term
    s_all,      \* all_results
    s_http,     \* per term, the robust_api_call invocations made: [genome_id, attempts, success, count]
    s_matrix,   \* create_genome_role_matrix of the returned summaries (None until built)
    \* ---- full_genome_search_parallel_progress.test_2_terms_all_genomes ----
    g_ids,      \* genome_ids
    g_pc,       \* "start", "collect", "matrix", "done"
    g_term,     \* enumerate(test_terms, 1): i
    g_pending,  \* batches whose future has not been collected
    g_completed,     \* completed_batches
    g_term_results,  \* results of search_term_across_genomes
    g_results,  \* results of test_2_terms_all_genomes
    g_matrix,   \* matrix
    g_k,        \* position of the matrix loop in results
    \* ---- full_genome_search_parallel_progress.safe_rate_limited_delay ----
    r_clock,             \* time.time()
    rate_limit_lock,     \* the thread holding the lock (None if free)
    last_api_call_time,
    api_call_count,
    api_failures,
    r_pc,       \* per worker thread: "idle", "base", "test", "penalty", "sleep", "stamp",
                \* "search", "failed"
    r_loc,      \* per worker thread, its local variables
    r_hist,     \* the completed acquisitions: [thread, time, total_delay, slept]
    r_failed,   \* exceptions caught by the except clause of search_batch_safe
    \* ---- the shared api_handler used by the worker threads of a parallel search ----
    h_stats,    \* api_handler.stats
    h_pc,       \* per worker: "idle", "backoff", "total", "load", "store", "request", "after"
    h_loc,      \* per worker: attempt, the counter being incremented, the value loaded, ...
    h_left,     \* per worker: invocations of robust_api_call still to make
    h_made,     \* HTTP attempts issued (session.get calls)
    h_succeeded, \* invocations that returned (True, data)
    \* ---- full_genome_search_parallel_fixed.test_1_term_all_genomes ----
    f_ids,      \* genome_ids
    f_pc,       \* "start", "collect", "done", "raised"
    f_term,     \* enumerate(test_terms, 1): i
    f_running,  \* batches whose future has not completed
    f_queue,    \* completed futures in the order as_completed yields them: [batch, raised, results]
    f_results,  \* results of search_term_across_genomes
    f_all,      \* all_raw_results
    f_exc,      \* the exception that left search_term_across_genomes (None if none)
    f_ok,       \* batches, over all terms, whose search_batch returned
    \* ---- run_production_tracks.ProductionTrackRunner.run_complete_production ----
    d_ids,        \* genome_ids
    d_pc,         \* "load", "track1", "track2", "track3", "matrix", "report", "done", "raised"
    d_summaries,  \* track_summaries: [track_name, status, results]
    d_matrix,     \* matrix_data (None if not created)
    d_exc,        \* the exception that left run_complete_production (None if none)
    \* ---- one worker thread running search_batch_safe ----
    w_batch,    \* batch
    w_pc,       \* "acquire", "http", "except", "returned", "collected"
    w_try,      \* attempt of search_batch_safe
    w_k,        \* position in the batch of the genome being searched
    w_attempt,  \* attempt of the robust_api_call in progress
    w_since,    \* HTTP attempts issued since the last safe_rate_limited_delay()
    w_http,     \* HTTP attempts issued in all
    w_acquires, \* calls of safe_rate_limited_delay() made by search_batch_safe
    w_sleeps,   \* backoff sleeps of search_batch_safe (line 110)
    w_ret,      \* what search_batch_safe returned: "results", "empty", None before
    w_completed,\* completed_batches of the collector
    w_added,    \* summaries the collector added to results
    o_batch,          \* search_batch_optimized: batch_genomes
    o_pc,             \* position of the worker running search_batch_optimized
    o_k,              \* index of the genome search_gene_in_genome_batch is at
    o_attempt,        \* attempt of the robust_api_call in progress
    o_results,        \* results of search_gene_in_genome_batch so far
    o_ends,           \* how the robust_api_call of each genome ended
    o_ret,            \* the SearchResult returned, None before the return
    o_exc,            \* the exception that left search_batch_optimized, None if none
    q_failures,       \* safe_rate_limited_delay: the value of api_failures it reads
    q_jitter,         \* random.uniform(0, 0.3), in tenths of a second
    q_pc,             \* position in the computation of total_delay
    q_base,           \* base_delay
    q_penalty,        \* failure_penalty
    q_total           \* total_delay

callVars == <<stats, c_pc, attempt, c_hist, c_delays, c_ret, stats0>>

partVars == <<p_ids, p_size, p_batches, p_pc>>

matVars == <<m_tracks, m_genomes, m_out, m_pc>>

searchVars == <<s_terms, s_genomes, s_type, s_pc, s_exc, s_i, s_k, s_attempt, s_acc, s_all,
                s_http, s_matrix>>

progVars == <<g_ids, g_pc, g_term, g_pending, g_completed, g_term_results, g_results, g_matrix, g_k>>

rateVars == <<r_clock, rate_limit_lock, last_api_call_time, api_call_count, api_failures, r_pc,
              r_loc, r_hist, r_failed>>

sharedVars == <<h_stats, h_pc, h_loc, h_left, h_made, h_succeeded>>

fixedVars == <<f_ids, f_pc, f_term, f_running, f_queue, f_results, f_all, f_exc, f_ok>>

prodVars == <<d_ids, d_pc, d_summaries, d_matrix, d_exc>>

workerVars == <<w_batch, w_pc, w_try, w_k, w_attempt, w_since, w_http, w_acquires, w_sleeps, w_ret,
                w_completed, w_added>>

optVars == <<o_batch, o_pc, o_k, o_attempt, o_results, o_ends, o_ret, o_exc>>

delayVars == <<q_failures, q_jitter, q_pc, q_base, q_penalty, q_total>>

vars == <<callVars, partVars, matVars, searchVars, progVars, rateVars, sharedVars, fixedVars,
          prodVars, workerVars, optVars, delayVars>>

(* What the operations of one component leave alone *)
notCall == <<partVars, matVars, searchVars, progVars, rateVars, sharedVars, fixedVars, prodVars,
             workerVars, optVars, delayVars>>

notPart == <<callVars, matVars, searchVars, progVars, rateVars, sharedVars, fixedVars, prodVars,
             workerVars, optVars, delayVars>>

notMat == <<callVars, partVars, searchVars, progVars, rateVars, sharedVars, fixedVars, prodVars,
            workerVars, optVars, delayVars>>

notSearch == <<callVars, partVars, matVars, progVars, rateVars, sharedVars, fixedVars, prodVars,
               workerVars, optVars, delayVars>>

notProg == <<callVars, partVars, matVars, searchVars, rateVars, sharedVars, fixedVars, prodVars,
             workerVars, optVars, delayVars>>

notRate == <<callVars, partVars, matVars, searchVars, progVars, sharedVars, fixedVars, prodVars,
             workerVars, optVars, delayVars>>

notShared == <<callVars, partVars, matVars, searchVars, progVars, rateVars, fixedVars, prodVars,
               workerVars, optVars, delayVars>>

notFixed == <<callVars, partVars, matVars, searchVars, progVars, rateVars, sharedVars, prodVars,
              workerVars, optVars, delayVars>>

notProd == <<callVars, partVars, matVars, searchVars, progVars, rateVars, sharedVars, fixedVars,
             workerVars, optVars, delayVars>>

notWorker == <<callVars, partVars, matVars, searchVars, progVars, rateVars, sharedVars, fixedVars,
               prodVars, optVars, delayVars>>

notOpt == <<callVars, partVars, matVars, searchVars, progVars, rateVars, sharedVars, fixedVars,
            prodVars, workerVars, delayVars>>

notDelay == <<callVars, partVars, matVars, searchVars, progVars, rateVars, sharedVars, fixedVars,
              prodVars, workerVars, optVars>>

-----------------------------------------------------------------------------
(* Generic helpers *)

Min(a, b) == IF a < b THEN a ELSE b

Max(a, b) == IF a > b THEN a ELSE b

RECURSIVE Pow2(_)
Pow2(n) == IF n = 0 THEN 1 ELSE 2 * Pow2(n - 1)

Range(s) == {s[i] : i \in 1..Len(s)}

None == "None"

-----------------------------------------------------------------------------
(* Bounds of the model *)

MaxTotalCalls == 5 \* cap of stats.total_calls: no invocation starts that could pass it
MaxHits == 1       \* features the service returns for one query
MaxBatchSize == 3  \* largest batch_size explored
MaxTracks == 2     \* tracks in track_results_list
MaxResults == 2    \* search results over all tracks
MaxFeatures == 2   \* features over all search results
batch_size == 2    \* batch_size of the parallel search (30 in the source), scaled to the roster
Epoch == 100       \* time.time() when the run starts
Horizon == 12      \* the clock is followed for this long
MaxAcquire == 2    \* calls of safe_rate_limited_delay explored
MaxFailures == 1   \* cap of api_failures
MaxFailureInput == 15  \* values of api_failures the delay is computed for
fixed_batch_size == 2   \* batch_size of full_genome_search_parallel_fixed (25 in the source), scaled
MaxInvocations == 1     \* robust_api_call invocations of each worker thread
MaxSharedAttempts == 3  \* HTTP attempts after which the server answers every request for good

-----------------------------------------------------------------------------
(* RobustBVBRCHandler: configuration (robust_api_handler.py 28-33) *)

base_timeout == 300
max_timeout == 1200
max_retries == 3
base_delay == 10
max_delay == 50
JitterMax == 10     \* random.uniform(0, 1)

Jitters == {0, JitterMax}

(* The entity the modelled query of the handler specification is about. *)
CallGenome == "E5"

Feature(g) == [genome_id |-> g]

RECURSIVE FeatureList(_, _)
FeatureList(g, n) == IF n = 0 THEN <<>> ELSE Append(FeatureList(g, n - 1), Feature(g))

(* What one session.get can end in: a response with a status code (a 200    *)
(* body is a JSON array, the JSON value null, or not JSON), or an exception.*)
(* null is kept apart from every list of features: a tuple holding a record *)
(* that is no feature.                                                      *)
JsonNull == <<[json |-> "null"]>>

Resp(code, json, data) == [kind |-> "status", code |-> code, json |-> json, data |-> data]

Exc(kind) == [kind |-> kind, code |-> 0, json |-> "none", data |-> <<>>]

ErrorCodes == {400, 401, 403, 404, 429, 500, 503, 504}

Outcomes(g) ==
    {Resp(200, "array", FeatureList(g, n)) : n \in 0..MaxHits}
    \cup {Resp(200, "null", JsonNull), Resp(200, "invalid", <<>>)}
    \cup {Resp(c, "none", <<>>) : c \in ErrorCodes}
    \cup {Exc("timeout"), Exc("connerr"), Exc("other")}

InitStats == [total_calls |-> 0, successful_calls |-> 0, timeout_errors |-> 0,
              http_errors |-> 0, retry_attempts |-> 0]

Timeout(a) == Min(base_timeout * Pow2(a), max_timeout)

BackoffDelay_doubled(a, jitter) == Min(base_delay * Pow2(a) + jitter, max_delay)

BackoffDelay(a, jitter) == Min(base_delay * Pow2(a - 1) + jitter, max_delay)

(* self.stats['total_calls'] += 1 is the first statement of the try block *)
TotalIncrement_responses(o) == IF o.kind = "status" THEN 1 ELSE 0

TotalIncrement(o) == 1

RetryIncrement_always(a) == 1

RetryIncrement(a) == IF a > 0 THEN 1 ELSE 0

LastAttempt_short(a) == a = max_retries - 1

LastAttempt(a) == a = max_retries

(* How the body of the try block ends for one outcome:                      *)
(*   "success"  return True, data        "fail"   return False, []          *)
(*   "retry"    continue                 "except" an except clause          *)
AttemptResult_listed(o) ==
    IF o.kind = "status"
    THEN IF o.code = 200
         THEN IF o.json = "invalid" THEN "except" ELSE "success"
         ELSE IF o.code \in {429, 503, 504} THEN "retry" ELSE "fail"
    ELSE "except"

AttemptResult_retry400(o) ==
    IF o.kind = "status"
    THEN IF o.code = 200
         THEN IF o.json = "invalid" THEN "except" ELSE "success"
         ELSE "retry"
    ELSE "except"

AttemptResult(o) ==
    IF o.kind = "status"
    THEN IF o.code = 200
         THEN IF o.json = "invalid" THEN "except" ELSE "success"
         ELSE IF o.code = 400 THEN "fail" ELSE "retry"
    ELSE "except"

(* The counter, besides total_calls, that one outcome increments. *)
Counted_connerr(o) ==
    IF o.kind = "status"
    THEN IF o.code = 200
         THEN IF o.json = "invalid" THEN None ELSE "successful_calls"
         ELSE "http_errors"
    ELSE IF o.kind \in {"timeout", "connerr"} THEN "timeout_errors" ELSE None

Counted(o) ==
    IF o.kind = "status"
    THEN IF o.code = 200
         THEN IF o.json = "invalid" THEN None ELSE "successful_calls"
         ELSE "http_errors"
    ELSE IF o.kind = "timeout" THEN "timeout_errors" ELSE None

Bump(s, key) == IF key = None THEN s ELSE [s EXCEPT ![key] = @ + 1]

(* The loop is left with (False, []) after this attempt. *)
GivesUp(o, a) == AttemptResult(o) \in {"retry", "except"} /\ LastAttempt(a)

-----------------------------------------------------------------------------
(* robust_api_call as a state machine *)

CallIdle ==
    /\ stats = InitStats
    /\ c_pc = "idle"
    /\ attempt = 0
    /\ c_hist = <<>>
    /\ c_delays = <<>>
    /\ c_ret = None
    /\ stats0 = InitStats

CallStart ==
    /\ c_pc \in {"idle", "returned"}
    /\ stats.total_calls + max_retries + 1 <= MaxTotalCalls
    /\ c_pc' = "loop"
    /\ attempt' = 0
    /\ c_hist' = <<>>
    /\ c_delays' = <<>>
    /\ c_ret' = None
    /\ stats0' = stats
    /\ UNCHANGED <<stats, notCall>>

(* The head of one loop iteration: the backoff sleep of a retry (87-92) *)
BeginAttempt ==
    /\ c_pc = "loop"
    /\ IF attempt > 0
       THEN \E jitter \in Jitters :
               c_delays' = Append(c_delays, [jitter |-> jitter, delay |-> BackoffDelay(attempt, jitter)])
       ELSE UNCHANGED c_delays
    /\ stats' = [stats EXCEPT !.retry_attempts = @ + RetryIncrement(attempt)]
    /\ c_pc' = "request"
    /\ UNCHANGED <<attempt, c_hist, c_ret, stats0, notCall>>

Request ==
    /\ c_pc = "request"
    /\ \E o \in Outcomes(CallGenome) :
          /\ c_hist' = Append(c_hist, o)
          /\ stats' = Bump([stats EXCEPT !.total_calls = @ + TotalIncrement(o)], Counted(o))
          /\ IF AttemptResult(o) = "success"
             THEN /\ c_ret' = <<TRUE, o.data>>
                  /\ c_pc' = "returned"
                  /\ UNCHANGED attempt
             ELSE IF AttemptResult(o) = "fail" \/ GivesUp(o, attempt)
             THEN /\ c_ret' = <<FALSE, <<>>>>
                  /\ c_pc' = "returned"
                  /\ UNCHANGED attempt
             ELSE /\ attempt' = attempt + 1
                  /\ c_pc' = "loop"
                  /\ UNCHANGED c_ret
    /\ UNCHANGED <<c_delays, stats0, notCall>>

CallNext == CallStart \/ BeginAttempt \/ Request

-----------------------------------------------------------------------------
(* Batching: [genome_ids[i:i + batch_size] for i in range(0, len(genome_ids), *)
(* batch_size)]                                                               *)

Entities == {"E1", "E2", "E3", "E4"}

(* Lists without repetition: genome_ids is list(genomes.keys()). *)
EntityLists(n) ==
    UNION {{l \in [1..k -> Entities] : \A a, b \in 1..k : a # b => l[a] # l[b]} : k \in 0..n}

(* Python l[i:j], 0 <= i <= j *)
Slice_inclusive(l, i, j) == SubSeq(l, i + 1, Min(j + 1, Len(l)))

Slice(l, i, j) == SubSeq(l, i + 1, Min(j, Len(l)))

RECURSIVE BatchesFrom(_, _, _)
BatchesFrom(l, size, i) ==
    IF i >= Len(l) THEN <<>>
    ELSE <<Slice(l, i, i + size)>> \o BatchesFrom(l, size, i + size)

Batches(l, size) == BatchesFrom(l, size, 0)

PartInit ==
    /\ p_ids \in EntityLists(Cardinality(Entities))
    /\ p_size \in 1..MaxBatchSize
    /\ p_batches = None
    /\ p_pc = "start"

PartIdle ==
    /\ p_ids = <<>>
    /\ p_size = 1
    /\ p_batches = None
    /\ p_pc = "start"

MakeBatches ==
    /\ p_pc = "start"
    /\ p_batches' = Batches(p_ids, p_size)
    /\ p_pc' = "done"
    /\ UNCHANGED <<p_ids, p_size, notPart>>

PartNext == MakeBatches

-----------------------------------------------------------------------------
(* BVBRCUtils.create_genome_role_matrix (shared_utilities.py 200-252)        *)
(* A track is a dictionary with 'track_name' and 'results'; a result has a   *)
(* 'search_term' and 'features'; a feature has a 'genome_id' (a string, so   *)
(* that str() leaves it as it is).                                           *)

(* The search terms of the model, in the order Python's sorted() gives. *)
TermOrder == <<"copA", "csgA", "sodA", "sodB">>

Terms == Range(TermOrder)

InTerms(S, t) == t \in S

(* sorted(list(all_roles)) *)
Sorted(S) == SelectSeq(TermOrder, LAMBDA t : InTerms(S, t))

RECURSIVE AllResults(_)
AllResults(tracks) ==
    IF tracks = <<>> THEN <<>> ELSE Head(tracks).results \o AllResults(Tail(tracks))

AllRoles(tracks) == {r.search_term : r \in Range(AllResults(tracks))}

EmptyMatrix_ones(genome_ids, roles) == [g \in Range(genome_ids) |-> [role \in roles |-> 1]]

EmptyMatrix(genome_ids, roles) == [g \in Range(genome_ids) |-> [role \in roles |-> 0]]

(* genome_role_matrix[genome_id][role] = 1; total_features += 1 *)
SetCell_count(acc, g, role) ==
    [matrix |-> [acc.matrix EXCEPT ![g][role] = @ + 1],
     total_features |-> acc.total_features + 1]

SetCell(acc, g, role) ==
    [matrix |-> [acc.matrix EXCEPT ![g][role] = 1],
     total_features |-> acc.total_features + 1]

RECURSIVE PopulateFeatures(_, _, _)
PopulateFeatures(acc, role, features) ==
    IF features = <<>> THEN acc
    ELSE LET g == Head(features).genome_id
         IN  PopulateFeatures(IF g \in DOMAIN acc.matrix THEN SetCell(acc, g, role) ELSE acc,
                              role, Tail(features))

(* A result's column rewritten from that result alone. *)
PopulateResult_overwrite(acc, result) ==
    LET hit == {f.genome_id : f \in Range(result.features)}
    IN  [matrix |-> [g \in DOMAIN acc.matrix |->
                        [acc.matrix[g] EXCEPT ![result.search_term] = IF g \in hit THEN 1 ELSE 0]],
         total_features |-> acc.total_features + Cardinality(hit \cap DOMAIN acc.matrix)]

PopulateResult(acc, result) == PopulateFeatures(acc, result.search_term, result.features)

RECURSIVE PopulateResults(_, _)
PopulateResults(acc, results) ==
    IF results = <<>> THEN acc
    ELSE PopulateResults(PopulateResult(acc, Head(results)), Tail(results))

TrackNames(tracks) == [i \in 1..Len(tracks) |-> tracks[i].track_name]

CreateGenomeRoleMatrix(tracks, genome_ids) ==
    LET roles == AllRoles(tracks)
        acc == PopulateResults([matrix |-> EmptyMatrix(genome_ids, roles), total_features |-> 0],
                               AllResults(tracks))
    IN  [matrix |-> acc.matrix,
         genomes |-> genome_ids,
         roles |-> Sorted(roles),
         total_features |-> acc.total_features,
         tracks_included |-> TrackNames(tracks)]

(* The caller's inputs: tracks are appended one by one, each with the        *)
(* results of its searches (run_production_tracks.py 176-187).               *)
TrackNameOf(n) == IF n = 1 THEN "Track1" ELSE IF n = 2 THEN "Track2" ELSE "Track3"

Rosters == {<<"E1", "E2">>}

RoleTerms == {"copA", "sodA"}

FeatureGenomes == {"E1", "E2", "E9"}

CountResults(tracks) == Len(AllResults(tracks))

RECURSIVE CountFeatures(_)
CountFeatures(results) ==
    IF results = <<>> THEN 0 ELSE Len(Head(results).features) + CountFeatures(Tail(results))

MatInit ==
    /\ m_tracks = <<>>
    /\ m_genomes \in Rosters
    /\ m_out = None
    /\ m_pc = "input"

MatIdle ==
    /\ m_tracks = <<>>
    /\ m_genomes = <<>>
    /\ m_out = None
    /\ m_pc = "input"

AddTrack ==
    /\ m_pc = "input"
    /\ Len(m_tracks) < MaxTracks
    /\ m_tracks' = Append(m_tracks, [track_name |-> TrackNameOf(Len(m_tracks) + 1), results |-> <<>>])
    /\ UNCHANGED <<m_genomes, m_out, m_pc, notMat>>

AddResult ==
    /\ m_pc = "input"
    /\ m_tracks # <<>>
    /\ CountResults(m_tracks) < MaxResults
    /\ \E t \in RoleTerms :
          m_tracks' = [m_tracks EXCEPT ![Len(m_tracks)].results =
                          Append(@, [search_term |-> t, features |-> <<>>])]
    /\ UNCHANGED <<m_genomes, m_out, m_pc, notMat>>

AddFeature ==
    /\ m_pc = "input"
    /\ m_tracks # <<>>
    /\ m_tracks[Len(m_tracks)].results # <<>>
    /\ CountFeatures(AllResults(m_tracks)) < MaxFeatures
    /\ \E g \in FeatureGenomes :
          LET n == Len(m_tracks)
              k == Len(m_tracks[n].results)
          IN  m_tracks' = [m_tracks EXCEPT ![n].results[k].features = Append(@, Feature(g))]
    /\ UNCHANGED <<m_genomes, m_out, m_pc, notMat>>

CreateMatrix ==
    /\ m_pc = "input"
    /\ m_out' = CreateGenomeRoleMatrix(m_tracks, m_genomes)
    /\ m_pc' = "done"
    /\ UNCHANGED <<m_tracks, m_genomes, notMat>>

MatNext == AddTrack \/ AddResult \/ AddFeature \/ CreateMatrix

-----------------------------------------------------------------------------
(* RobustBVBRCHandler.search_gene_in_genome (robust_api_handler.py 142-180)  *)
(* and BVBRCUtils.batch_search_across_genomes (shared_utilities.py 55-135)   *)

SearchTypes == {"gene", "product", "keyword"}

(* search_gene_in_genome raises ValueError for any other search_type *)
ValidSearchType(search_type) == search_type \in {"gene", "product"}

(* The dictionary search_gene_in_genome returns for the value ret of         *)
(* robust_api_call                                                           *)
SearchResult(gene_term, genome_id, search_type, ret) ==
    IF ret[1]
    THEN [success |-> TRUE, genome_id |-> genome_id, gene_term |-> gene_term,
          search_type |-> search_type, results |-> ret[2], count |-> Len(ret[2]),
          error |-> None]
    ELSE [success |-> FALSE, genome_id |-> genome_id, gene_term |-> gene_term,
          search_type |-> search_type, results |-> <<>>, count |-> 0,
          error |-> "API call failed after retries"]

(* len(data) raises TypeError when the body was not a JSON array *)
LenRaises(ret) == ret[1] /\ ret[2] = JsonNull

inner_batch_size == 20

batch_max_retries == 8

EmptyAcc == [term_results |-> <<>>, term_features |-> 0, genome_coverage |-> <<>>]

(* genome_coverage[genome_id] = feature_count *)
DictSet(d, key, value) == [x \in DOMAIN d \cup {key} |-> IF x = key THEN value ELSE d[x]]

(* One pass of the loop over batch_results (92-103) *)
Accumulate_failedAbsent(acc, result) ==
    LET hit == result.success /\ result.count > 0
    IN  [term_results |-> IF hit /\ result.results # <<>>
                          THEN acc.term_results \o result.results
                          ELSE acc.term_results,
         term_features |-> IF hit THEN acc.term_features + result.count ELSE acc.term_features,
         genome_coverage |-> IF result.success
                             THEN DictSet(acc.genome_coverage, result.genome_id, result.count)
                             ELSE acc.genome_coverage]

Accumulate(acc, result) ==
    LET hit == result.success /\ result.count > 0
    IN  [term_results |-> IF hit /\ result.results # <<>>
                          THEN acc.term_results \o result.results
                          ELSE acc.term_results,
         term_features |-> IF hit THEN acc.term_features + result.count ELSE acc.term_features,
         genome_coverage |-> DictSet(acc.genome_coverage, result.genome_id, result.count)]

TermSummary(search_term, search_type, track_name, genome_ids, acc) ==
    [search_term |-> search_term,
     search_type |-> search_type,
     track_name |-> track_name,
     genomes_searched |-> Len(genome_ids),
     features_found |-> acc.term_features,
     success |-> acc.term_features > 0,
     features |-> acc.term_results,
     genome_coverage |-> acc.genome_coverage]

(* all_results.append(term_summary) *)
AppendSummary_hitsOnly(all, summary) == IF summary.success THEN Append(all, summary) ELSE all

AppendSummary(all, summary) == Append(all, summary)

(* The genomes in the order the inner batches of 20 visit them *)
RECURSIVE Flatten(_)
Flatten(ss) == IF ss = <<>> THEN <<>> ELSE Head(ss) \o Flatten(Tail(ss))

Visited(genome_ids) == Flatten(Batches(genome_ids, inner_batch_size))

TermLists == {<<>>, <<"sodA">>, <<"sodA", "sodB">>, <<"sodB", "sodA">>}

SearchRosters == {<<>>, <<"E1">>, <<"E1", "E2">>}

SearchTrack == "Track"

SearchInit ==
    /\ s_terms \in TermLists
    /\ s_genomes \in SearchRosters
    /\ s_type \in SearchTypes
    /\ s_pc = IF s_terms = <<>> THEN "summary" ELSE "loop"
    /\ s_exc = None
    /\ s_i = 1
    /\ s_k = 1
    /\ s_attempt = 0
    /\ s_acc = EmptyAcc
    /\ s_all = <<>>
    /\ s_http = [i \in 1..Len(s_terms) |-> <<>>]
    /\ s_matrix = None

SearchIdle ==
    /\ s_terms = <<>>
    /\ s_genomes = <<>>
    /\ s_type = "gene"
    /\ s_pc = "summary"
    /\ s_exc = None
    /\ s_i = 1
    /\ s_k = 1
    /\ s_attempt = 0
    /\ s_acc = EmptyAcc
    /\ s_all = <<>>
    /\ s_http = <<>>
    /\ s_matrix = None

(* search_gene_in_genome is entered for the next genome of the term *)
SearchGeneInGenome ==
    /\ s_pc = "loop"
    /\ s_k <= Len(Visited(s_genomes))
    /\ IF ValidSearchType(s_type)
       THEN /\ s_pc' = "http"
            /\ s_attempt' = 0
            /\ UNCHANGED s_exc
       ELSE /\ s_pc' = "raised"
            /\ s_exc' = "ValueError"
            /\ UNCHANGED s_attempt
    /\ UNCHANGED <<s_terms, s_genomes, s_type, s_i, s_k, s_acc, s_all, s_http, s_matrix, notSearch>>

(* The call returns ret: the result is folded into the term's totals *)
Returns(ret) ==
    LET g == Visited(s_genomes)[s_k]
        result == SearchResult(s_terms[s_i], g, s_type, ret)
    IN  IF LenRaises(ret)
        THEN /\ s_pc' = "raised"
             /\ s_exc' = "TypeError"
             /\ UNCHANGED <<s_acc, s_http, s_k, s_attempt>>
        ELSE /\ s_acc' = Accumulate(s_acc, result)
             /\ s_http' = [s_http EXCEPT ![s_i] =
                               Append(@, [genome_id |-> g, attempts |-> s_attempt + 1,
                                          success |-> result.success, count |-> result.count])]
             /\ s_k' = s_k + 1
             /\ s_pc' = "loop"
             /\ UNCHANGED <<s_attempt, s_exc>>

(* One HTTP attempt of the robust_api_call in progress *)
HttpAttempt ==
    /\ s_pc = "http"
    /\ \E o \in Outcomes(Visited(s_genomes)[s_k]) :
          IF AttemptResult(o) = "success" THEN Returns(<<TRUE, o.data>>)
          ELSE IF AttemptResult(o) = "fail" \/ GivesUp(o, s_attempt) THEN Returns(<<FALSE, <<>>>>)
          ELSE /\ s_attempt' = s_attempt + 1
               /\ UNCHANGED <<s_acc, s_http, s_k, s_pc, s_exc>>
    /\ UNCHANGED <<s_terms, s_genomes, s_type, s_i, s_all, s_matrix, notSearch>>

(* Every genome of the term was searched: the term summary is appended *)
Consolidate ==
    /\ s_pc = "loop"
    /\ s_k > Len(Visited(s_genomes))
    /\ s_all' = AppendSummary(s_all, TermSummary(s_terms[s_i], s_type, SearchTrack, s_genomes, s_acc))
    /\ s_acc' = EmptyAcc
    /\ s_k' = 1
    /\ IF s_i < Len(s_terms)
       THEN s_i' = s_i + 1 /\ UNCHANGED s_pc
       ELSE s_pc' = "summary" /\ UNCHANGED s_i
    /\ UNCHANGED <<s_terms, s_genomes, s_type, s_exc, s_attempt, s_http, s_matrix, notSearch>>

(* The batch summary (129-135): successful_terms / len(search_terms) *)
Finish ==
    /\ s_pc = "summary"
    /\ IF Len(s_terms) = 0
       THEN s_pc' = "raised" /\ s_exc' = "ZeroDivisionError"
       ELSE s_pc' = "done" /\ UNCHANGED s_exc
    /\ UNCHANGED <<s_terms, s_genomes, s_type, s_i, s_k, s_attempt, s_acc, s_all, s_http, s_matrix,
                   notSearch>>

(* The returned summaries, as one track, go to create_genome_role_matrix *)
MatrixOfSummaries ==
    /\ s_pc = "done"
    /\ s_matrix' = CreateGenomeRoleMatrix(<<[track_name |-> SearchTrack, results |-> s_all]>>, s_genomes)
    /\ s_pc' = "matrix"
    /\ UNCHANGED <<s_terms, s_genomes, s_type, s_exc, s_i, s_k, s_attempt, s_acc, s_all, s_http,
                   notSearch>>

SearchNext == SearchGeneInGenome \/ HttpAttempt \/ Consolidate \/ Finish \/ MatrixOfSummaries

-----------------------------------------------------------------------------
(* full_genome_search_parallel_progress.py: search_term_across_genomes       *)
(* (54-139) and test_2_terms_all_genomes (142-462)                           *)

(* What robust_api_call can return for a query about genome g *)
CallReturns(g) == {<<FALSE, <<>>>>, <<TRUE, JsonNull>>} \cup {<<TRUE, FeatureList(g, n)>> : n \in 0..MaxHits}

(* batch_search_across_genomes of one term, as a function of what the        *)
(* robust_api_call for each genome returned                                  *)
RECURSIVE AccumulateAll(_, _, _, _, _)
AccumulateAll(acc, search_term, search_type, genomes, rets) ==
    IF genomes = <<>> THEN acc
    ELSE AccumulateAll(Accumulate(acc, SearchResult(search_term, Head(genomes), search_type,
                                                    rets[Head(genomes)])),
                       search_term, search_type, Tail(genomes), rets)

BatchSearchOneTerm(search_term, genome_ids, search_type, track_name, rets) ==
    AppendSummary(<<>>, TermSummary(search_term, search_type, track_name, genome_ids,
                                    AccumulateAll(EmptyAcc, search_term, search_type,
                                                  Visited(genome_ids), rets)))

(* What search_batch_safe can return for a batch: the summary of an attempt  *)
(* in which no call raised, or [] after the last attempt failed              *)
BatchOutcomes(term, batch) ==
    {BatchSearchOneTerm(term, batch, "gene", "Safe_Parallel_Search", rets) :
        rets \in {r \in [Range(batch) -> UNION {CallReturns(g) : g \in Range(batch)}] :
                    \A g \in Range(batch) : r[g] \in CallReturns(g) /\ ~LenRaises(r[g])}}
    \cup {<<>>}

test_terms == <<"copA", "sodA">>

ProgressRoster == <<"E1", "E2", "E3", "E4">>

(* The outcomes of every batch of the roster for every term, tabulated once *)
BatchOutcomeTable ==
    [t \in Range(test_terms) |->
        [b \in Range(Batches(ProgressRoster, batch_size)) |-> BatchOutcomes(t, b)]]

(* One pass of the loop over results that builds the matrix (448-462) *)
MatrixStep(matrix, result, genome_ids) ==
    IF result.success
    THEN [g \in DOMAIN matrix \cup Range(genome_ids) |->
             IF g \in Range(genome_ids)
             THEN DictSet(IF g \in DOMAIN matrix THEN matrix[g] ELSE <<>>,
                          result.search_term,
                          IF g \in DOMAIN result.genome_coverage /\ result.genome_coverage[g] > 0
                          THEN 1 ELSE 0)
             ELSE matrix[g]]
    ELSE matrix

(* The whole loop over results, from matrix = {} *)
RECURSIVE MatrixFrom(_, _, _)
MatrixFrom(matrix, results, genome_ids) ==
    IF results = <<>> THEN matrix
    ELSE MatrixFrom(MatrixStep(matrix, Head(results), genome_ids), Tail(results), genome_ids)

ProgInit ==
    /\ g_ids = ProgressRoster
    /\ g_pc = "start"
    /\ g_term = 1
    /\ g_pending = {}
    /\ g_completed = 0
    /\ g_term_results = <<>>
    /\ g_results = <<>>
    /\ g_matrix = <<>>
    /\ g_k = 1

ProgIdle ==
    /\ g_ids = <<>>
    /\ g_pc = "done"
    /\ g_term = 1
    /\ g_pending = {}
    /\ g_completed = 0
    /\ g_term_results = <<>>
    /\ g_results = <<>>
    /\ g_matrix = <<>>
    /\ g_k = 1

(* search_term_across_genomes is called for the next term: every batch is    *)
(* submitted to the pool                                                     *)
SubmitBatches ==
    /\ g_pc = "start"
    /\ g_pending' = 1..Len(Batches(g_ids, batch_size))
    /\ g_completed' = 0
    /\ g_term_results' = <<>>
    /\ g_pc' = "collect"
    /\ UNCHANGED <<g_ids, g_term, g_results, g_matrix, g_k, notProg>>

(* completed_batches += 1 (131), outside the "if batch_results" of 126 *)
CountCompleted_nonempty(completed_batches, batch_results) ==
    IF batch_results # <<>> THEN completed_batches + 1 ELSE completed_batches

CountCompleted(completed_batches, batch_results) == completed_batches + 1

(* as_completed yields the future of batch b *)
CollectBatch ==
    /\ g_pc = "collect"
    /\ \E b \in g_pending :
          /\ \E batch_results \in
                    BatchOutcomeTable[test_terms[g_term]][Batches(g_ids, batch_size)[b]] :
                /\ g_term_results' = g_term_results \o batch_results
                /\ g_completed' = CountCompleted(g_completed, batch_results)
          /\ g_pending' = g_pending \ {b}
    /\ UNCHANGED <<g_ids, g_pc, g_term, g_results, g_matrix, g_k, notProg>>

(* The as_completed loop has yielded every future and the pool is shut down *)
AllCollected_early(pending) == TRUE

AllCollected(pending) == pending = {}

(* search_term_across_genomes returns; results.extend(term_results) *)
TermReturns ==
    /\ g_pc = "collect"
    /\ AllCollected(g_pending)
    /\ g_results' = g_results \o g_term_results
    /\ IF g_term < Len(test_terms)
       THEN g_term' = g_term + 1 /\ g_pc' = "start"
       ELSE g_pc' = "matrix" /\ UNCHANGED g_term
    /\ UNCHANGED <<g_ids, g_pending, g_completed, g_term_results, g_matrix, g_k, notProg>>

(* The matrix loop takes the next result *)
BuildMatrix ==
    /\ g_pc = "matrix"
    /\ g_k <= Len(g_results)
    /\ g_matrix' = MatrixStep(g_matrix, g_results[g_k], g_ids)
    /\ g_k' = g_k + 1
    /\ UNCHANGED <<g_ids, g_pc, g_term, g_pending, g_completed, g_term_results, g_results, notProg>>

MatrixBuilt ==
    /\ g_pc = "matrix"
    /\ g_k > Len(g_results)
    /\ g_pc' = "done"
    /\ UNCHANGED <<g_ids, g_term, g_pending, g_completed, g_term_results, g_results, g_matrix, g_k,
                   notProg>>

ProgNext == SubmitBatches \/ CollectBatch \/ TermReturns \/ BuildMatrix \/ MatrixBuilt

-----------------------------------------------------------------------------
(* full_genome_search_parallel_progress.py: safe_rate_limited_delay (14-52)  *)
(* called by the worker threads of the pool, and api_failures += 1 (95)      *)

Workers == {"w1", "w2"}

(* random.uniform(0, 0.3) *)
RateJitters == {0, 3}

NoLocals == [current_time |-> 0, base_delay |-> 0, gentle |-> FALSE, total_delay |-> 0,
             wake |-> 0, slept |-> FALSE, seen |-> 0]

(* with rate_limit_lock: the lock can be taken *)
LockFree_unlocked(owner) == TRUE

LockFree(owner) == owner = None

(* lines 28-32 *)
BaseDelay(failures) == IF failures > 10 THEN 6 ELSE IF failures > 5 THEN 4 ELSE 3

(* line 35 *)
GentlePenalty(failures) == failures <= 5

(* lines 36 and 38 *)
FailurePenalty_uncapped(gentle, failures) == IF gentle THEN failures * 3 ELSE failures * 8

FailurePenalty(gentle, failures) ==
    IF gentle THEN Min(failures * 3, 20) ELSE Min(failures * 8, 100)

InLimiter == {t \in Workers : r_pc[t] \in {"base", "test", "penalty", "sleep", "stamp"}}

RateInit ==
    /\ r_clock = Epoch
    /\ rate_limit_lock = None
    /\ last_api_call_time = 0
    /\ api_call_count = 0
    /\ api_failures = 0
    /\ r_pc = [t \in Workers |-> "idle"]
    /\ r_loc = [t \in Workers |-> NoLocals]
    /\ r_hist = <<>>
    /\ r_failed = 0

RateIdle ==
    /\ r_clock = 0
    /\ rate_limit_lock = None
    /\ last_api_call_time = 0
    /\ api_call_count = 0
    /\ api_failures = 0
    /\ r_pc = [t \in Workers |-> "idle"]
    /\ r_loc = [t \in Workers |-> NoLocals]
    /\ r_hist = <<>>
    /\ r_failed = 0

Tick ==
    /\ r_clock < Epoch + Horizon
    /\ r_clock' = r_clock + 1
    /\ UNCHANGED <<rate_limit_lock, last_api_call_time, api_call_count, api_failures, r_pc, r_loc,
                   r_hist, r_failed, notRate>>

(* with rate_limit_lock: current_time = time.time() *)
Acquire(t) ==
    /\ r_pc[t] = "idle"
    /\ api_call_count + Cardinality(InLimiter) < MaxAcquire
    /\ LockFree(rate_limit_lock)
    /\ rate_limit_lock' = t
    /\ r_loc' = [r_loc EXCEPT ![t] = [NoLocals EXCEPT !.current_time = r_clock]]
    /\ r_pc' = [r_pc EXCEPT ![t] = "base"]
    /\ UNCHANGED <<r_clock, last_api_call_time, api_call_count, api_failures, r_hist, r_failed, notRate>>

ComputeBase(t) ==
    /\ r_pc[t] = "base"
    /\ r_loc' = [r_loc EXCEPT ![t].base_delay = BaseDelay(api_failures)]
    /\ r_pc' = [r_pc EXCEPT ![t] = "test"]
    /\ UNCHANGED <<r_clock, rate_limit_lock, last_api_call_time, api_call_count, api_failures,
                   r_hist, r_failed, notRate>>

PenaltyTest(t) ==
    /\ r_pc[t] = "test"
    /\ r_loc' = [r_loc EXCEPT ![t].gentle = GentlePenalty(api_failures)]
    /\ r_pc' = [r_pc EXCEPT ![t] = "penalty"]
    /\ UNCHANGED <<r_clock, rate_limit_lock, last_api_call_time, api_call_count, api_failures,
                   r_hist, r_failed, notRate>>

(* failure_penalty, jitter, total_delay, time_since_last; time.sleep starts *)
ComputeDelay(t) ==
    /\ r_pc[t] = "penalty"
    /\ \E jitter \in RateJitters :
          LET total_delay == r_loc[t].base_delay + FailurePenalty(r_loc[t].gentle, api_failures)
                             + jitter
              time_since_last == r_loc[t].current_time - last_api_call_time
          IN  IF time_since_last < total_delay
              THEN /\ r_loc' = [r_loc EXCEPT ![t].total_delay = total_delay,
                                             ![t].wake = r_clock + (total_delay - time_since_last),
                                             ![t].slept = TRUE]
                   /\ r_pc' = [r_pc EXCEPT ![t] = "sleep"]
              ELSE /\ r_loc' = [r_loc EXCEPT ![t].total_delay = total_delay]
                   /\ r_pc' = [r_pc EXCEPT ![t] = "stamp"]
    /\ UNCHANGED <<r_clock, rate_limit_lock, last_api_call_time, api_call_count, api_failures,
                   r_hist, r_failed, notRate>>

(* time.sleep(sleep_time) returns, not before sleep_time has passed *)
Wake(t) ==
    /\ r_pc[t] = "sleep"
    /\ r_clock >= r_loc[t].wake
    /\ r_pc' = [r_pc EXCEPT ![t] = "stamp"]
    /\ UNCHANGED <<r_clock, rate_limit_lock, last_api_call_time, api_call_count, api_failures,
                   r_loc, r_hist, r_failed, notRate>>

(* last_api_call_time = time.time(); api_call_count += 1; the lock is released *)
Stamp(t) ==
    /\ r_pc[t] = "stamp"
    /\ last_api_call_time' = r_clock
    /\ api_call_count' = api_call_count + 1
    /\ r_hist' = Append(r_hist, [thread |-> t, time |-> r_clock,
                                 total_delay |-> r_loc[t].total_delay, slept |-> r_loc[t].slept])
    /\ rate_limit_lock' = IF rate_limit_lock = t THEN None ELSE rate_limit_lock
    /\ r_loc' = [r_loc EXCEPT ![t] = NoLocals]
    /\ r_pc' = [r_pc EXCEPT ![t] = "search"]
    /\ UNCHANGED <<r_clock, api_failures, r_failed, notRate>>

(* batch_search_across_genomes returned: search_batch_safe returns *)
BatchReturns(t) ==
    /\ r_pc[t] = "search"
    /\ r_pc' = [r_pc EXCEPT ![t] = "idle"]
    /\ UNCHANGED <<r_clock, rate_limit_lock, last_api_call_time, api_call_count, api_failures,
                   r_loc, r_hist, r_failed, notRate>>

(* batch_search_across_genomes raised: api_failures += 1 reads the global... *)
FailureRead(t) ==
    /\ r_pc[t] = "search"
    /\ api_failures < MaxFailures
    /\ r_loc' = [r_loc EXCEPT ![t].seen = api_failures]
    /\ r_pc' = [r_pc EXCEPT ![t] = "failed"]
    /\ r_failed' = r_failed + 1
    /\ UNCHANGED <<r_clock, rate_limit_lock, last_api_call_time, api_call_count, api_failures,
                   r_hist, notRate>>

(* ... and writes it back; the worker goes on to its next attempt *)
FailureWrite(t) ==
    /\ r_pc[t] = "failed"
    /\ api_failures' = r_loc[t].seen + 1
    /\ r_loc' = [r_loc EXCEPT ![t] = NoLocals]
    /\ r_pc' = [r_pc EXCEPT ![t] = "idle"]
    /\ UNCHANGED <<r_clock, rate_limit_lock, last_api_call_time, api_call_count, r_hist, r_failed, notRate>>

RateNext ==
    \/ Tick
    \/ \E t \in Workers : Acquire(t)
    \/ \E t \in Workers : ComputeBase(t)
    \/ \E t \in Workers : PenaltyTest(t)
    \/ \E t \in Workers : ComputeDelay(t)
    \/ \E t \in Workers : Wake(t)
    \/ \E t \in Workers : Stamp(t)
    \/ \E t \in Workers : BatchReturns(t)
    \/ \E t \in Workers : FailureRead(t)
    \/ \E t \in Workers : FailureWrite(t)

-----------------------------------------------------------------------------
(* robust_api_call on the shared api_handler (shared_utilities.py 13-14),    *)
(* called from the pool threads of search_term_across_genomes                *)
(* (full_genome_search_parallel_fixed.py 20-34). self.stats[key] += 1 is a   *)
(* load followed by a store; no lock is taken.                               *)

NoCall == [attempt |-> 0, key |-> None, seen |-> 0, next |-> "idle", result |-> None]

SharedInit ==
    /\ h_stats = InitStats
    /\ h_pc = [t \in Workers |-> "idle"]
    /\ h_loc = [t \in Workers |-> NoCall]
    /\ h_left = [t \in Workers |-> MaxInvocations]
    /\ h_made = 0
    /\ h_succeeded = 0

SharedIdle ==
    /\ h_stats = InitStats
    /\ h_pc = [t \in Workers |-> "idle"]
    /\ h_loc = [t \in Workers |-> NoCall]
    /\ h_left = [t \in Workers |-> 0]
    /\ h_made = 0
    /\ h_succeeded = 0

(* robust_api_call is entered *)
SharedCall(t) ==
    /\ h_pc[t] = "idle"
    /\ h_left[t] > 0
    /\ h_left' = [h_left EXCEPT ![t] = @ - 1]
    /\ h_loc' = [h_loc EXCEPT ![t] = NoCall]
    /\ h_pc' = [h_pc EXCEPT ![t] = "backoff"]
    /\ UNCHANGED <<h_stats, h_made, h_succeeded, notShared>>

(* The head of a loop iteration: if attempt > 0, sleep, retry_attempts += 1 *)
SharedBackoff(t) ==
    /\ h_pc[t] = "backoff"
    /\ IF RetryIncrement(h_loc[t].attempt) = 1
       THEN /\ h_loc' = [h_loc EXCEPT ![t].key = "retry_attempts", ![t].next = "total"]
            /\ h_pc' = [h_pc EXCEPT ![t] = "load"]
       ELSE /\ h_pc' = [h_pc EXCEPT ![t] = "total"]
            /\ UNCHANGED h_loc
    /\ UNCHANGED <<h_stats, h_left, h_made, h_succeeded, notShared>>

(* self.stats['total_calls'] += 1 begins *)
SharedTotal(t) ==
    /\ h_pc[t] = "total"
    /\ h_loc' = [h_loc EXCEPT ![t].key = "total_calls", ![t].next = "request"]
    /\ h_pc' = [h_pc EXCEPT ![t] = "load"]
    /\ UNCHANGED <<h_stats, h_left, h_made, h_succeeded, notShared>>

(* self.stats[key] is loaded *)
LoadCounter(t) ==
    /\ h_pc[t] = "load"
    /\ h_loc' = [h_loc EXCEPT ![t].seen = h_stats[h_loc[t].key]]
    /\ h_pc' = [h_pc EXCEPT ![t] = "store"]
    /\ UNCHANGED <<h_stats, h_left, h_made, h_succeeded, notShared>>

(* the value loaded, plus one, is stored in self.stats[key] *)
StoreCounter(t) ==
    /\ h_pc[t] = "store"
    /\ h_stats' = [h_stats EXCEPT ![h_loc[t].key] = h_loc[t].seen + 1]
    /\ h_pc' = [h_pc EXCEPT ![t] = h_loc[t].next]
    /\ UNCHANGED <<h_loc, h_left, h_made, h_succeeded, notShared>>

(* self.session.get and the branch taken on its outcome *)
SharedRequest(t) ==
    /\ h_pc[t] = "request"
    /\ h_made' = h_made + 1
    /\ \E o \in {x \in Outcomes(CallGenome) :
                     h_made + 1 < MaxSharedAttempts \/ AttemptResult(x) \in {"success", "fail"}} :
          LET result == IF AttemptResult(o) = "success" THEN "success"
                        ELSE IF AttemptResult(o) = "fail" \/ GivesUp(o, h_loc[t].attempt)
                        THEN "fail" ELSE "retry"
          IN  IF Counted(o) = None
              THEN /\ h_loc' = [h_loc EXCEPT ![t].result = result]
                   /\ h_pc' = [h_pc EXCEPT ![t] = "after"]
              ELSE /\ h_loc' = [h_loc EXCEPT ![t].result = result, ![t].key = Counted(o),
                                             ![t].next = "after"]
                   /\ h_pc' = [h_pc EXCEPT ![t] = "load"]
    /\ UNCHANGED <<h_stats, h_left, h_succeeded, notShared>>

(* return True, data / return False, [] / continue *)
SharedAfter(t) ==
    /\ h_pc[t] = "after"
    /\ IF h_loc[t].result = "retry"
       THEN /\ h_loc' = [h_loc EXCEPT ![t] = [NoCall EXCEPT !.attempt = h_loc[t].attempt + 1]]
            /\ h_pc' = [h_pc EXCEPT ![t] = "backoff"]
            /\ UNCHANGED h_succeeded
       ELSE /\ h_loc' = [h_loc EXCEPT ![t] = NoCall]
            /\ h_pc' = [h_pc EXCEPT ![t] = "idle"]
            /\ h_succeeded' = h_succeeded + (IF h_loc[t].result = "success" THEN 1 ELSE 0)
    /\ UNCHANGED <<h_stats, h_left, h_made, notShared>>

SharedNext ==
    \/ \E t \in Workers : SharedCall(t)
    \/ \E t \in Workers : SharedBackoff(t)
    \/ \E t \in Workers : SharedTotal(t)
    \/ \E t \in Workers : LoadCounter(t)
    \/ \E t \in Workers : StoreCounter(t)
    \/ \E t \in Workers : SharedRequest(t)
    \/ \E t \in Workers : SharedAfter(t)

-----------------------------------------------------------------------------
(* full_genome_search_parallel_fixed.py: search_term_across_genomes (13-36)  *)
(* and the term loop of test_1_term_all_genomes (56-65)                      *)

fixed_terms == <<"copA">>

FixedRoster == <<"E1", "E2", "E3", "E4">>

(* What the future of search_batch holds: the list batch_search_across_genomes *)
(* returned, or the exception it raised (len(data) of a body that is no list)  *)
FutureOf(term, batch, rets) ==
    IF \E g \in Range(batch) : LenRaises(rets[g])
    THEN [raised |-> TRUE, results |-> <<>>]
    ELSE [raised |-> FALSE,
          results |-> BatchSearchOneTerm(term, batch, "gene", "Full_Genome_1_Term_Test", rets)]

FixedFutures(term, batch) ==
    {FutureOf(term, batch, rets) :
        rets \in {r \in [Range(batch) -> UNION {CallReturns(g) : g \in Range(batch)}] :
                    \A g \in Range(batch) : r[g] \in CallReturns(g)}}

FixedInit ==
    /\ f_ids = FixedRoster
    /\ f_pc = "start"
    /\ f_term = 1
    /\ f_running = {}
    /\ f_queue = <<>>
    /\ f_results = <<>>
    /\ f_all = <<>>
    /\ f_exc = None
    /\ f_ok = 0

FixedIdle ==
    /\ f_ids = <<>>
    /\ f_pc = "done"
    /\ f_term = 1
    /\ f_running = {}
    /\ f_queue = <<>>
    /\ f_results = <<>>
    /\ f_all = <<>>
    /\ f_exc = None
    /\ f_ok = 0

(* search_term_across_genomes is called: every batch is submitted *)
FixedSubmit ==
    /\ f_pc = "start"
    /\ f_running' = 1..Len(Batches(f_ids, fixed_batch_size))
    /\ f_queue' = <<>>
    /\ f_results' = <<>>
    /\ f_pc' = "collect"
    /\ UNCHANGED <<f_ids, f_term, f_all, f_exc, f_ok, notFixed>>

(* search_batch of batch b ends in a pool thread *)
FixedBatchEnds ==
    /\ f_pc \in {"collect", "raised"}
    /\ \E b \in f_running :
          /\ \E fut \in FixedFutures(fixed_terms[f_term], Batches(f_ids, fixed_batch_size)[b]) :
                /\ f_queue' = Append(f_queue, [batch |-> b, raised |-> fut.raised,
                                               results |-> fut.results])
                /\ f_ok' = f_ok + (IF fut.raised THEN 0 ELSE 1)
          /\ f_running' = f_running \ {b}
    /\ UNCHANGED <<f_ids, f_pc, f_term, f_results, f_all, f_exc, notFixed>>

(* as_completed yields the next future: results.extend(future.result()) *)
FixedCollect ==
    /\ f_pc = "collect"
    /\ f_queue # <<>>
    /\ IF Head(f_queue).raised
       THEN /\ f_pc' = "raised"
            /\ f_exc' = "TypeError"
            /\ UNCHANGED f_results
       ELSE /\ f_results' = f_results \o Head(f_queue).results
            /\ UNCHANGED <<f_pc, f_exc>>
    /\ f_queue' = Tail(f_queue)
    /\ UNCHANGED <<f_ids, f_term, f_running, f_all, f_ok, notFixed>>

(* return results; all_raw_results.extend(term_results) *)
FixedTermReturns ==
    /\ f_pc = "collect"
    /\ f_running = {}
    /\ f_queue = <<>>
    /\ f_all' = f_all \o f_results
    /\ IF f_term < Len(fixed_terms)
       THEN f_term' = f_term + 1 /\ f_pc' = "start"
       ELSE f_pc' = "done" /\ UNCHANGED f_term
    /\ UNCHANGED <<f_ids, f_running, f_queue, f_results, f_exc, f_ok, notFixed>>

FixedNext == FixedSubmit \/ FixedBatchEnds \/ FixedCollect \/ FixedTermReturns

-----------------------------------------------------------------------------
(* run_production_tracks.py: ProductionTrackRunner (38-343) with the tracks  *)
(* of track2_copper_homeostasis.py and track3_sod_systems.py. The module of  *)
(* Track 1 is not part of the sources: its run_complete_track either returns *)
(* the summaries of its gene searches or raises.                             *)

ProdRosters == {<<>>} \cup {l \in EntityLists(2) : l # <<>> /\ Range(l) \subseteq {"E1", "E2", "E3"}}

NoResults == [track_name |-> None, results |-> <<>>]

(* batch_search_across_genomes(search_terms=[term], ...) as the caller sees  *)
(* it: the summaries returned, or the exception raised                       *)
SearchOutcome(term, genome_ids, search_type, track_name, rets) ==
    IF genome_ids # <<>> /\ ~ValidSearchType(search_type)
    THEN [raised |-> "ValueError", results |-> <<>>]
    ELSE IF \E g \in Range(genome_ids) : LenRaises(rets[g])
    THEN [raised |-> "TypeError", results |-> <<>>]
    ELSE [raised |-> None,
          results |-> BatchSearchOneTerm(term, genome_ids, search_type, track_name, rets)]

RetsFor(genome_ids) ==
    {r \in [Range(genome_ids) -> UNION {CallReturns(g) : g \in Range(genome_ids)}] :
        \A g \in Range(genome_ids) : r[g] \in CallReturns(g)}

(* run_complete_track of Track 2 and Track 3: the gene searches, then the    *)
(* functional searches with search_type='keyword'                            *)
RunCompleteTrack(track_name, gene_term, functional_term, genome_ids, rets, frets) ==
    LET genes == SearchOutcome(gene_term, genome_ids, "gene", track_name, rets)
        functional == SearchOutcome(functional_term, genome_ids, "keyword", track_name, frets)
    IN  IF genes.raised # None THEN genes
        ELSE IF functional.raised # None THEN functional
        ELSE [raised |-> None, results |-> genes.results \o functional.results]

(* run_track1 / run_track2 / run_track3: the except clause turns an          *)
(* exception into a summary with status 'failed'                             *)
TrackSummary(name, track_name, outcome) ==
    IF outcome.raised # None
    THEN [track_name |-> name, status |-> "failed", results |-> NoResults]
    ELSE [track_name |-> name, status |-> "success",
          results |-> [track_name |-> track_name, results |-> outcome.results]]

Track1Outcomes(genome_ids) ==
    {SearchOutcome("csgA", genome_ids, "gene", "Bacterial_Amyloids", rets) : rets \in RetsFor(genome_ids)}
    \cup {[raised |-> "Exception", results |-> <<>>]}

Track2Outcomes(genome_ids) ==
    {RunCompleteTrack("Copper_Homeostasis", "copA", "copper", genome_ids, rets, frets) :
        rets \in RetsFor(genome_ids), frets \in RetsFor(genome_ids)}

Track3Outcomes(genome_ids) ==
    {RunCompleteTrack("SOD_Systems", "sodA", "superoxide", genome_ids, rets, frets) :
        rets \in RetsFor(genome_ids), frets \in RetsFor(genome_ids)}

RECURSIVE SuccessfulResults(_)
SuccessfulResults(summaries) ==
    IF summaries = <<>> THEN <<>>
    ELSE (IF Head(summaries).status = "success" THEN <<Head(summaries).results>> ELSE <<>>)
         \o SuccessfulResults(Tail(summaries))

ProdInit ==
    /\ d_ids = <<>>
    /\ d_pc = "load"
    /\ d_summaries = <<>>
    /\ d_matrix = None
    /\ d_exc = None

ProdIdle ==
    /\ d_ids = <<>>
    /\ d_pc = "done"
    /\ d_summaries = <<>>
    /\ d_matrix = None
    /\ d_exc = None

(* load_genomes: raises ValueError if no genome was loaded *)
LoadGenomes ==
    /\ d_pc = "load"
    /\ \E ids \in ProdRosters :
          /\ d_ids' = ids
          /\ IF ids = <<>>
             THEN d_pc' = "raised" /\ d_exc' = "ValueError"
             ELSE d_pc' = "track1" /\ UNCHANGED d_exc
    /\ UNCHANGED <<d_summaries, d_matrix, notProd>>

RunTrack1 ==
    /\ d_pc = "track1"
    /\ \E o \in Track1Outcomes(d_ids) :
          d_summaries' = Append(d_summaries, TrackSummary("Track1_Bacterial_Amyloids", "Bacterial_Amyloids", o))
    /\ d_pc' = "track2"
    /\ UNCHANGED <<d_ids, d_matrix, d_exc, notProd>>

RunTrack2 ==
    /\ d_pc = "track2"
    /\ \E o \in Track2Outcomes(d_ids) :
          d_summaries' = Append(d_summaries, TrackSummary("Track2_Copper_Homeostasis", "Copper_Homeostasis", o))
    /\ d_pc' = "track3"
    /\ UNCHANGED <<d_ids, d_matrix, d_exc, notProd>>

RunTrack3 ==
    /\ d_pc = "track3"
    /\ \E o \in Track3Outcomes(d_ids) :
          d_summaries' = Append(d_summaries, TrackSummary("Track3_SOD_Systems", "SOD_Systems", o))
    /\ d_pc' = "matrix"
    /\ UNCHANGED <<d_ids, d_matrix, d_exc, notProd>>

(* create_integrated_matrix: None when no track succeeded *)
CreateIntegratedMatrix ==
    /\ d_pc = "matrix"
    /\ d_matrix' = IF SuccessfulResults(d_summaries) = <<>> THEN None
                   ELSE CreateGenomeRoleMatrix(SuccessfulResults(d_summaries), d_ids)
    /\ d_pc' = "report"
    /\ UNCHANGED <<d_ids, d_summaries, d_exc, notProd>>

(* generate_final_report, print_final_summary, return final_report *)
FinalReport ==
    /\ d_pc = "report"
    /\ d_pc' = "done"
    /\ UNCHANGED <<d_ids, d_summaries, d_matrix, d_exc, notProd>>

ProdNext ==
    LoadGenomes \/ RunTrack1 \/ RunTrack2 \/ RunTrack3 \/ CreateIntegratedMatrix \/ FinalReport

-----------------------------------------------------------------------------
(* full_genome_search_parallel_progress.py: search_batch_safe (65-117) as    *)
(* one pool thread runs it: the rate limiter, then batch_search_across_genomes *)
(* with its robust_api_call per genome                                       *)

WorkerBatches == {<<"E1">>, <<"E1", "E2">>}

WorkerInit ==
    /\ w_batch \in WorkerBatches
    /\ w_pc = "acquire"
    /\ w_try = 0
    /\ w_k = 1
    /\ w_attempt = 0
    /\ w_since = 0
    /\ w_http = 0
    /\ w_acquires = 0
    /\ w_sleeps = 0
    /\ w_ret = None
    /\ w_completed = 0
    /\ w_added = 0

WorkerIdle ==
    /\ w_batch = <<>>
    /\ w_pc = "returned"
    /\ w_try = 0
    /\ w_k = 1
    /\ w_attempt = 0
    /\ w_since = 0
    /\ w_http = 0
    /\ w_acquires = 0
    /\ w_sleeps = 0
    /\ w_ret = None
    /\ w_completed = 0
    /\ w_added = 0

(* safe_rate_limited_delay() returns; batch_search_across_genomes is entered *)
WorkerAcquire ==
    /\ w_pc = "acquire"
    /\ w_since' = 0
    /\ w_k' = 1
    /\ w_attempt' = 0
    /\ w_pc' = "http"
    /\ w_acquires' = w_acquires + 1
    /\ UNCHANGED <<w_batch, w_try, w_http, w_sleeps, w_ret, w_completed, w_added, notWorker>>

(* The next genome of the batch, or the end of the batch *)
WorkerNextGenome ==
    IF w_k < Len(w_batch)
    THEN w_k' = w_k + 1 /\ w_attempt' = 0 /\ UNCHANGED <<w_pc, w_ret>>
    ELSE w_pc' = "returned" /\ w_ret' = "results" /\ UNCHANGED <<w_k, w_attempt>>

(* self.session.get for the genome at w_k *)
WorkerRequest ==
    /\ w_pc = "http"
    /\ w_since' = w_since + 1
    /\ w_http' = w_http + 1
    /\ \E o \in Outcomes(w_batch[w_k]) :
          IF AttemptResult(o) = "success"
          THEN IF LenRaises(<<TRUE, o.data>>)
               THEN w_pc' = "except" /\ UNCHANGED <<w_k, w_attempt, w_ret>>
               ELSE WorkerNextGenome
          ELSE IF AttemptResult(o) = "fail" \/ GivesUp(o, w_attempt)
          THEN WorkerNextGenome
          ELSE w_attempt' = w_attempt + 1 /\ UNCHANGED <<w_k, w_pc, w_ret>>
    /\ UNCHANGED <<w_batch, w_try, w_acquires, w_sleeps, w_completed, w_added, notWorker>>

(* "if attempt < max_retries - 1" (99) is false: the attempt was the last *)
BatchLastAttempt_extra(a) == a = batch_max_retries

BatchLastAttempt(a) == a = batch_max_retries - 1

(* except Exception: back off and try the batch again, or return [] *)
WorkerExcept ==
    /\ w_pc = "except"
    /\ IF ~BatchLastAttempt(w_try)
       THEN w_try' = w_try + 1 /\ w_sleeps' = w_sleeps + 1 /\ w_pc' = "acquire"
              /\ UNCHANGED w_ret
       ELSE w_pc' = "returned" /\ w_ret' = "empty" /\ UNCHANGED <<w_try, w_sleeps>>
    /\ UNCHANGED <<w_batch, w_k, w_attempt, w_since, w_http, w_acquires, w_completed, w_added,
                   notWorker>>

(* The collector takes future.result() (125-131) *)
WorkerCollected ==
    /\ w_pc = "returned"
    /\ w_ret # None
    /\ w_added' = IF w_ret = "results" THEN w_added + 1 ELSE w_added
    /\ w_completed' = CountCompleted(w_completed, IF w_ret = "results" THEN <<w_ret>> ELSE <<>>)
    /\ w_pc' = "collected"
    /\ UNCHANGED <<w_batch, w_try, w_k, w_attempt, w_since, w_http, w_acquires, w_sleeps, w_ret,
                   notWorker>>

WorkerNext == WorkerAcquire \/ WorkerRequest \/ WorkerExcept \/ WorkerCollected

-----------------------------------------------------------------------------
(* optimized_parallel_search.py: OptimizedSearchManager.search_batch_optimized *)
(* (32-72) over shared_utilities.search_gene_in_genome_batch (31-53)          *)

OptBatches == {<<"E1">>, <<"E1", "E2">>}

OptTerm == "copA"

(* The dataclass SearchResult (16-22), execution_time left out *)
BatchSearchResult(term, batch_id, features_found, success) ==
    [term |-> term, batch_id |-> batch_id, features_found |-> features_found,
     success |-> success]

(* sum(r.get('count', 0) for r in results if r.get('success', False)) *)
RECURSIVE SumCounts(_)
SumCounts(results) ==
    IF results = <<>> THEN 0
    ELSE (IF Head(results).success THEN Head(results).count ELSE 0) + SumCounts(Tail(results))

(* The value of "success" in the SearchResult of the try branch (53-59) *)
TrySuccess(results) == TRUE

OptInit ==
    /\ o_batch \in OptBatches
    /\ o_pc = "loop"
    /\ o_k = 1
    /\ o_attempt = 0
    /\ o_results = <<>>
    /\ o_ends = <<>>
    /\ o_ret = None
    /\ o_exc = None

OptIdle ==
    /\ o_batch = <<>>
    /\ o_pc = "returned"
    /\ o_k = 1
    /\ o_attempt = 0
    /\ o_results = <<>>
    /\ o_ends = <<>>
    /\ o_ret = None
    /\ o_exc = None

(* search_gene_in_genome is entered for the next genome, search_type='gene' *)
OptSearchGene ==
    /\ o_pc = "loop"
    /\ o_k <= Len(o_batch)
    /\ o_pc' = "http"
    /\ o_attempt' = 0
    /\ UNCHANGED <<o_batch, o_k, o_results, o_ends, o_ret, o_exc, notOpt>>

(* robust_api_call returns ret; len(data) raising is caught at line 61 *)
OptReturns(ret, end) ==
    IF LenRaises(ret)
    THEN /\ o_ret' = BatchSearchResult(OptTerm, 0, 0, FALSE)
         /\ o_pc' = "returned"
         /\ o_ends' = Append(o_ends, end)
         /\ UNCHANGED <<o_results, o_k, o_attempt>>
    ELSE /\ o_results' = Append(o_results, SearchResult(OptTerm, o_batch[o_k], "gene", ret))
         /\ o_ends' = Append(o_ends, end)
         /\ o_k' = o_k + 1
         /\ o_pc' = "loop"
         /\ UNCHANGED <<o_ret, o_attempt>>

(* One HTTP attempt of the robust_api_call in progress *)
OptHttpAttempt ==
    /\ o_pc = "http"
    /\ \E o \in Outcomes(o_batch[o_k]) :
          IF AttemptResult(o) = "success" THEN OptReturns(<<TRUE, o.data>>, "ok")
          ELSE IF AttemptResult(o) = "fail" THEN OptReturns(<<FALSE, <<>>>>, "400")
          ELSE IF GivesUp(o, o_attempt) THEN OptReturns(<<FALSE, <<>>>>, "exhausted")
          ELSE /\ o_attempt' = o_attempt + 1
               /\ UNCHANGED <<o_results, o_ends, o_k, o_pc, o_ret>>
    /\ UNCHANGED <<o_batch, o_exc, notOpt>>

(* search_gene_in_genome_batch returned: the try branch builds the result *)
OptReturn ==
    /\ o_pc = "loop"
    /\ o_k > Len(o_batch)
    /\ o_ret' = BatchSearchResult(OptTerm, 0, SumCounts(o_results), TrySuccess(o_results))
    /\ o_pc' = "returned"
    /\ UNCHANGED <<o_batch, o_k, o_attempt, o_results, o_ends, o_exc, notOpt>>

OptNext == OptSearchGene \/ OptHttpAttempt \/ OptReturn

-----------------------------------------------------------------------------
(* full_genome_search_parallel_progress.py: the delay computed by            *)
(* safe_rate_limited_delay (27-43) as a function of api_failures, for one    *)
(* caller and a value of api_failures that does not change during the call   *)

DelayJitters == 0..3

DelayInit ==
    /\ q_failures \in 0..MaxFailureInput
    /\ q_jitter \in DelayJitters
    /\ q_pc = "base"
    /\ q_base = 0
    /\ q_penalty = 0
    /\ q_total = 0

DelayIdle ==
    /\ q_failures = 0
    /\ q_jitter = 0
    /\ q_pc = "done"
    /\ q_base = 0
    /\ q_penalty = 0
    /\ q_total = 0

(* lines 28-32 *)
DelayBase ==
    /\ q_pc = "base"
    /\ q_base' = BaseDelay(q_failures)
    /\ q_pc' = "penalty"
    /\ UNCHANGED <<q_failures, q_jitter, q_penalty, q_total, notDelay>>

(* lines 35-38 *)
DelayPenalty ==
    /\ q_pc = "penalty"
    /\ q_penalty' = FailurePenalty(GentlePenalty(q_failures), q_failures)
    /\ q_pc' = "total"
    /\ UNCHANGED <<q_failures, q_jitter, q_base, q_total, notDelay>>

(* lines 41-43 *)
DelayTotal ==
    /\ q_pc = "total"
    /\ q_total' = q_base + q_penalty + q_jitter
    /\ q_pc' = "done"
    /\ UNCHANGED <<q_failures, q_jitter, q_base, q_penalty, notDelay>>

DelayNext == DelayBase \/ DelayPenalty \/ DelayTotal

-----------------------------------------------------------------------------
(* Specifications *)

Init == CallIdle /\ PartIdle /\ MatIdle /\ SearchIdle /\ ProgIdle /\ RateIdle /\ SharedIdle /\
    FixedIdle /\ ProdIdle /\ WorkerIdle /\ OptIdle /\ DelayIdle

Spec == Init /\ [][CallNext]_vars

InitBatches == PartInit /\ CallIdle /\ MatIdle /\ SearchIdle /\ ProgIdle /\ RateIdle /\ SharedIdle
    /\ FixedIdle /\ ProdIdle /\ WorkerIdle /\ OptIdle /\ DelayIdle

SpecBatches == InitBatches /\ [][PartNext]_vars

InitMatrix == MatInit /\ CallIdle /\ PartIdle /\ SearchIdle /\ ProgIdle /\ RateIdle /\ SharedIdle
    /\ FixedIdle /\ ProdIdle /\ WorkerIdle /\ OptIdle /\ DelayIdle

SpecMatrix == InitMatrix /\ [][MatNext]_vars

InitSearch == SearchInit /\ CallIdle /\ PartIdle /\ MatIdle /\ ProgIdle /\ RateIdle /\ SharedIdle
    /\ FixedIdle /\ ProdIdle /\ WorkerIdle /\ OptIdle /\ DelayIdle

SpecSearch == InitSearch /\ [][SearchNext]_vars

InitProgress == ProgInit /\ CallIdle /\ PartIdle /\ MatIdle /\ SearchIdle /\ RateIdle /\
    SharedIdle /\ FixedIdle /\ ProdIdle /\ WorkerIdle /\ OptIdle /\ DelayIdle

SpecProgress == InitProgress /\ [][ProgNext]_vars

(* Every HTTP attempt returns or times out and search_batch_safe makes a     *)
(* bounded number of attempts, so every future completes and the main thread *)
(* keeps running: the next step of the run is eventually taken.              *)
SpecProgressFair == InitProgress /\ [][ProgNext]_vars /\ WF_vars(ProgNext)

InitRate == RateInit /\ CallIdle /\ PartIdle /\ MatIdle /\ SearchIdle /\ ProgIdle /\ SharedIdle /\
    FixedIdle /\ ProdIdle /\ WorkerIdle /\ OptIdle /\ DelayIdle

SpecRate == InitRate /\ [][RateNext]_vars

InitShared == SharedInit /\ CallIdle /\ PartIdle /\ MatIdle /\ SearchIdle /\ ProgIdle /\ RateIdle
    /\ FixedIdle /\ ProdIdle /\ WorkerIdle /\ OptIdle /\ DelayIdle

SpecShared == InitShared /\ [][SharedNext]_vars

InitFixed == FixedInit /\ CallIdle /\ PartIdle /\ MatIdle /\ SearchIdle /\ ProgIdle /\ RateIdle /\
    SharedIdle /\ ProdIdle /\ WorkerIdle /\ OptIdle /\ DelayIdle

SpecFixed == InitFixed /\ [][FixedNext]_vars

InitProduction == ProdInit /\ CallIdle /\ PartIdle /\ MatIdle /\ SearchIdle /\ ProgIdle /\
    RateIdle /\ SharedIdle /\ FixedIdle /\ WorkerIdle /\ OptIdle /\ DelayIdle

SpecProduction == InitProduction /\ [][ProdNext]_vars

InitWorker == WorkerInit /\ CallIdle /\ PartIdle /\ MatIdle /\ SearchIdle /\ ProgIdle /\ RateIdle
    /\ SharedIdle /\ FixedIdle /\ ProdIdle /\ OptIdle /\ DelayIdle

SpecWorker == InitWorker /\ [][WorkerNext]_vars

InitOpt == OptInit /\ CallIdle /\ PartIdle /\ MatIdle /\ SearchIdle /\ ProgIdle /\ RateIdle /\
    SharedIdle /\ FixedIdle /\ ProdIdle /\ WorkerIdle /\ DelayIdle

SpecOpt == InitOpt /\ [][OptNext]_vars

InitDelay == DelayInit /\ CallIdle /\ PartIdle /\ MatIdle /\ SearchIdle /\ ProgIdle /\ RateIdle /\
    SharedIdle /\ FixedIdle /\ ProdIdle /\ WorkerIdle /\ OptIdle

SpecDelay == InitDelay /\ [][DelayNext]_vars

-----------------------------------------------------------------------------
(* Properties of robust_api_call *)

Returned == c_pc = "returned"

Attempts == Len(c_hist)

Grew(key) == stats[key] - stats0[key]

IsStatus(o, codes) == o.kind = "status" /\ o.code \in codes

RetryableOutcome(o) == IsStatus(o, {429, 503, 504}) \/ o.kind \in {"timeout", "connerr"}

AllRetryable == \A i \in 1..Len(c_hist) : RetryableOutcome(c_hist[i])

(* C1: an invocation whose every attempt ended in a retryable outcome        *)
(* (429/503/504, timeout, connection error) made exactly max_retries + 1     *)
(* attempts, total_calls grew by max_retries + 1, and it returned            *)
(* (False, []).                                                              *)
C1_RetryBound ==
    (Returned /\ AllRetryable) =>
        /\ Attempts = max_retries + 1
        /\ Grew("total_calls") = max_retries + 1
        /\ c_ret = <<FALSE, <<>>>>

C1_Witness ==
    /\ Returned /\ AllRetryable
    /\ stats0.total_calls > 0
    /\ \E i, j \in 1..Len(c_hist) : c_hist[i].kind = "timeout" /\ IsStatus(c_hist[j], {503})

(* C2: when the first attempt receives HTTP 400 the invocation is over after *)
(* that one attempt: it returned (False, []), http_errors and total_calls    *)
(* grew by 1, retry_attempts and successful_calls did not change.            *)
C2_NoRetryOn400 ==
    (Attempts >= 1 /\ IsStatus(c_hist[1], {400})) =>
        /\ Returned
        /\ Attempts = 1
        /\ c_ret = <<FALSE, <<>>>>
        /\ Grew("http_errors") = 1
        /\ Grew("total_calls") = 1
        /\ Grew("retry_attempts") = 0
        /\ Grew("successful_calls") = 0

C2_Witness ==
    /\ Returned
    /\ Attempts = 1
    /\ IsStatus(c_hist[1], {400})
    /\ stats0.http_errors > 0

(* k attempts with HTTP 503 followed by HTTP 200 carrying a JSON array *)
Http503Then200(k) ==
    /\ Attempts = k + 1
    /\ \A i \in 1..k : IsStatus(c_hist[i], {503})
    /\ IsStatus(c_hist[k + 1], {200})
    /\ c_hist[k + 1].json = "array"

(* C3: if the first k attempts (0 <= k <= max_retries) receive HTTP 503 and  *)
(* attempt k+1 receives HTTP 200 with a JSON array, the invocation returns   *)
(* (True, that array) and retry_attempts grew by exactly k.                  *)
C3_RetryThenSuccess ==
    \A k \in 0..max_retries :
        (Returned /\ Http503Then200(k)) =>
            /\ c_ret = <<TRUE, c_hist[k + 1].data>>
            /\ Grew("retry_attempts") = k

C3_Witness ==
    /\ Returned
    /\ Http503Then200(3)
    /\ c_ret = <<TRUE, <<Feature(CallGenome)>>>>
    /\ stats.retry_attempts = stats0.retry_attempts + 3

(* C9: the delay slept before retry a, when its jitter is 0, is              *)
(* min(base_delay * 2^(a-1), max_delay); the jitter-free delays are          *)
(* non-decreasing in a and no delay exceeds max_delay.                       *)
C9_BackoffMonotone ==
    /\ Len(c_delays) <= max_retries
    /\ \A a \in 1..Len(c_delays) :
          /\ c_delays[a].delay <= max_delay
          /\ c_delays[a].jitter = 0 =>
                c_delays[a].delay = Min(base_delay * Pow2(a - 1), max_delay)
    /\ \A a, b \in 1..Len(c_delays) :
          (a < b /\ c_delays[a].jitter = 0 /\ c_delays[b].jitter = 0) =>
              c_delays[a].delay <= c_delays[b].delay

C9_Witness ==
    /\ Len(c_delays) = max_retries
    /\ \A a \in 1..Len(c_delays) : c_delays[a].jitter = 0
    /\ c_delays[1].delay < c_delays[max_retries].delay

-----------------------------------------------------------------------------
(* Properties of the batching *)

RECURSIVE Concat(_)
Concat(ss) == IF ss = <<>> THEN <<>> ELSE Head(ss) \o Concat(Tail(ss))

CeilDiv(n, d) == (n + d - 1) \div d

(* C4: the batches are consecutive slices whose concatenation is the         *)
(* original list: every entity is in exactly one batch, only the last batch  *)
(* may be shorter than batch_size (none is empty), and there are             *)
(* ceil(N / batch_size) batches.                                             *)
C4_PartitionComplete ==
    p_pc = "done" =>
        /\ Concat(p_batches) = p_ids
        /\ Len(p_batches) = CeilDiv(Len(p_ids), p_size)
        /\ \A k \in 1..Len(p_batches) :
              /\ Len(p_batches[k]) >= 1
              /\ Len(p_batches[k]) <= p_size
              /\ k < Len(p_batches) => Len(p_batches[k]) = p_size
        /\ \A e \in Range(p_ids) :
              Cardinality({k \in 1..Len(p_batches) : e \in Range(p_batches[k])}) = 1

C4_Witness ==
    /\ p_pc = "done"
    /\ p_ids = <<"E1", "E2", "E3">>
    /\ p_size = 2
    /\ p_batches = << <<"E1", "E2">>, <<"E3">> >>

-----------------------------------------------------------------------------
(* Properties of create_genome_role_matrix *)

SeqPerms(s) == {[i \in 1..Len(s) |-> s[p[i]]] : p \in Permutations(1..Len(s))}

ResultOrders(track) == {[track EXCEPT !.results = r] : r \in SeqPerms(track.results)}

RECURSIVE InnerOrders(_)
InnerOrders(tracks) ==
    IF tracks = <<>> THEN {<<>>}
    ELSE {<<h>> \o t : h \in ResultOrders(Head(tracks)), t \in InnerOrders(Tail(tracks))}

(* Every permutation of the tracks and of the results inside each track *)
Reorderings(tracks) == UNION {InnerOrders(ts) : ts \in SeqPerms(tracks)}

(* C6: for a fixed genome list, every permutation of track_results_list and  *)
(* of the results inside each track gives the same 'matrix' and the same     *)
(* 'roles'.                                                                  *)
C6_MergeCommutes ==
    m_pc = "done" =>
        \A ts \in Reorderings(m_tracks) :
            /\ CreateGenomeRoleMatrix(ts, m_genomes).matrix = m_out.matrix
            /\ CreateGenomeRoleMatrix(ts, m_genomes).roles = m_out.roles

(* Two results of one term with different hits, so that the order could matter *)
C6_Witness ==
    /\ m_pc = "done"
    /\ Cardinality(Reorderings(m_tracks)) > 1
    /\ \E i, j \in 1..CountResults(m_tracks) :
          LET rs == AllResults(m_tracks)
          IN  /\ i < j
              /\ rs[i].search_term = rs[j].search_term
              /\ rs[i].features # <<>>
              /\ rs[j].features = <<>>
              /\ rs[i].features[1].genome_id \in Range(m_genomes)
    /\ \E g \in Range(m_genomes), t \in AllRoles(m_tracks) : m_out.matrix[g][t] = 1

(* Every result twice: the list of tracks repeated, the results of each      *)
(* track repeated, each result followed by a copy of itself.                 *)
RECURSIVE Twice(_)
Twice(s) == IF s = <<>> THEN <<>> ELSE <<Head(s), Head(s)>> \o Twice(Tail(s))

Doublings(tracks) ==
    { tracks \o tracks,
      [i \in 1..Len(tracks) |-> [tracks[i] EXCEPT !.results = @ \o @]],
      [i \in 1..Len(tracks) |-> [tracks[i] EXCEPT !.results = Twice(@)]] }

(* C7: merging search results that contain every result twice gives the      *)
(* same 'matrix' as merging them once.                                       *)
C7_MergeIdempotent ==
    m_pc = "done" =>
        \A ts \in Doublings(m_tracks) :
            CreateGenomeRoleMatrix(ts, m_genomes).matrix = m_out.matrix

C7_Witness ==
    /\ m_pc = "done"
    /\ \E g \in Range(m_genomes), t \in AllRoles(m_tracks) : m_out.matrix[g][t] = 1
    /\ \E g \in Range(m_genomes), t \in AllRoles(m_tracks) : m_out.matrix[g][t] = 0
    /\ m_out.total_features >= 2

-----------------------------------------------------------------------------
(* Properties of batch_search_across_genomes *)

(* Every robust_api_call of term i was made, and each made max_retries + 1   *)
(* HTTP attempts and returned failure                                        *)
TermFailedFully(i) ==
    /\ Len(s_http[i]) = Len(s_genomes)
    /\ \A n \in 1..Len(s_http[i]) :
          ~s_http[i][n].success /\ s_http[i][n].attempts = max_retries + 1

(* Every robust_api_call of term i was made, and the one for e had hits *)
TermHit(i, e) ==
    /\ Len(s_http[i]) = Len(s_genomes)
    /\ \E n \in 1..Len(s_http[i]) :
          s_http[i][n].genome_id = e /\ s_http[i][n].success /\ s_http[i][n].count > 0

-----------------------------------------------------------------------------
(* Properties of the matrix of test_2_terms_all_genomes *)

(* C5: while the matrix is built from the collected per-batch results, a     *)
(* cell matrix[genome][term] that is 1 is not set back to 0 by the           *)
(* processing of a later result.                                             *)
C5_CellNeverReset ==
    [][\A g \in DOMAIN g_matrix : \A t \in DOMAIN g_matrix[g] :
          g_matrix[g][t] = 1 => g_matrix'[g][t] = 1]_vars

-----------------------------------------------------------------------------
(* Properties of safe_rate_limited_delay *)

(* C10: the last_api_call_time values recorded by two consecutive completed  *)
(* acquisitions differ by at least the delay computed for the later one,     *)
(* which is at least the base delay of 0.3 s, whatever the interleaving of   *)
(* the worker threads.                                                       *)
C10_MinimumSpacing ==
    \A n \in 2..Len(r_hist) :
        /\ r_hist[n].time - r_hist[n - 1].time >= r_hist[n].total_delay
        /\ r_hist[n].total_delay >= 3

(* Two workers acquire one after the other; the later one had to sleep *)
C10_Witness ==
    \E n \in 2..Len(r_hist) :
        /\ r_hist[n].thread # r_hist[n - 1].thread
        /\ r_hist[n].slept
        /\ r_hist[n].time - r_hist[n - 1].time = r_hist[n].total_delay

-----------------------------------------------------------------------------
(* Properties of the shared statistics *)

AllWorkersFinished == \A t \in Workers : h_pc[t] = "idle" /\ h_left[t] = 0

(* C11: no increment of the counters is lost: once all workers have finished *)
(* total_calls is the number of HTTP attempts made and successful_calls the  *)
(* number of invocations that returned success.                              *)
C11_NoLostIncrement ==
    AllWorkersFinished =>
        /\ h_stats.total_calls = h_made
        /\ h_stats.successful_calls = h_succeeded

-----------------------------------------------------------------------------
(* Properties of the inputs of batch_search_across_genomes *)

(* C12: a search started with an empty genome roster or an empty list of     *)
(* search terms issues no HTTP request and does not return normally.         *)
C12_EmptyInputFails ==
    (s_genomes = <<>> \/ s_terms = <<>>) =>
        /\ s_pc \notin {"http", "done", "matrix"}
        /\ \A i \in DOMAIN s_http : s_http[i] = <<>>

-----------------------------------------------------------------------------
(* Properties of the parallel search of full_genome_search_parallel_fixed *)

(* C13: an exception raised while one batch is processed is contained to     *)
(* that batch: it never leaves search_term_across_genomes, and the run ends  *)
(* with the results of every batch whose search returned.                    *)
C13_BatchExceptionContained ==
    /\ f_exc = None
    /\ f_pc # "raised"
    /\ f_pc = "done" => Len(f_all) = f_ok

-----------------------------------------------------------------------------
(* Properties of run_complete_production *)

(* C14: started with a non-empty roster, run_complete_production does not    *)
(* raise and, when it has completed, an integrated genome-role matrix with   *)
(* a row for every genome of the roster has been produced.                   *)
C14_RunYieldsMatrix ==
    d_ids # <<>> =>
        /\ d_pc # "raised"
        /\ d_pc = "done" =>
              /\ d_matrix # None
              /\ DOMAIN d_matrix.matrix = Range(d_ids)

-----------------------------------------------------------------------------
(* Properties of the search types *)

(* C15: for each documented search type ('gene', 'product', 'keyword') the   *)
(* batch search does not reject the type, and when it has returned there is  *)
(* one search result per genome id for every term.                           *)
C15_DocumentedTypesAccepted ==
    s_type \in SearchTypes =>
        /\ s_exc # "ValueError"
        /\ s_pc \in {"done", "matrix"} =>
              \A i \in 1..Len(s_terms) : Len(s_http[i]) = Len(s_genomes)

-----------------------------------------------------------------------------
(* Properties of the shape of the matrix *)

(* C16: after a run the matrix has a cell for every genome of the roster and *)
(* every declared search term; a term without features is an all-zero        *)
(* column, not an absent one.                                                *)
C16_FullGrid ==
    g_pc = "done" /\ g_ids # <<>> =>
        \A g \in Range(g_ids) : \A n \in 1..Len(test_terms) :
            /\ g \in DOMAIN g_matrix
            /\ test_terms[n] \in DOMAIN g_matrix[g]

-----------------------------------------------------------------------------
(* Properties of the cells of create_genome_role_matrix *)

(* Some summary of the term with success true holds a feature of genome e *)
SuccessfulFeature(results, e, t) ==
    \E n \in 1..Len(results) :
        /\ results[n].search_term = t
        /\ results[n].success
        /\ \E k \in 1..Len(results[n].features) : results[n].features[k].genome_id = e

-----------------------------------------------------------------------------
(* Properties of the completion order of the batch futures *)

(* The results as another completion order of the futures of each term would *)
(* have left them: the same summaries, permuted inside each term             *)
CompletionOrders(results) ==
    {p \in SeqPerms(results) : \A n \in 1..Len(results) : p[n].search_term = results[n].search_term}

(* C18: for fixed server responses, the final matrix is the same for every   *)
(* order in which the batch futures of a term complete.                      *)
C18_CompletionOrderIrrelevant ==
    g_pc = "done" =>
        \A p \in CompletionOrders(g_results) : MatrixFrom(<<>>, p, g_ids) = g_matrix

-----------------------------------------------------------------------------
(* Properties of the rate limiting of requests *)

(* C19: every HTTP attempt of a worker is preceded by its own acquisition of *)
(* the rate limiter: a worker never issues two HTTP attempts without a       *)
(* safe_rate_limited_delay() between them.                                   *)
C19_AcquirePerRequest == w_since <= 1

-----------------------------------------------------------------------------
(* Properties of the failure counter *)

(* C20: the increments of api_failures are made under rate_limit_lock, so    *)
(* none is lost: whenever no increment is in progress, api_failures is the   *)
(* number of failures the workers have counted.                              *)
C20_NoLostFailure ==
    (\A t \in Workers : r_pc[t] # "failed") => api_failures = r_failed

-----------------------------------------------------------------------------
(* Termination of the parallel search *)

NumBatches == Len(Batches(g_ids, batch_size))

(* C21: search_term_across_genomes returns for every term, and when it       *)
(* returns every batch of the term has completed exactly once                *)
(* (completed_batches = number of batches, no future left); the run ends     *)
(* once every term has returned.                                             *)
C21_EveryTermReturns ==
    /\ [][(g_pc = "collect" /\ g_pc' # "collect") =>
             (g_completed = NumBatches /\ g_pending = {})]_vars
    /\ <>(g_pc = "done" /\ g_term = Len(test_terms))

(* The run has ended, and some batch ended as zero-hit: fewer summaries than *)
(* batches were collected                                                    *)
C21_Witness ==
    /\ g_pc = "done"
    /\ g_completed = NumBatches
    /\ NumBatches > 1
    /\ Len(g_results) < NumBatches * Len(test_terms)
    /\ g_results # <<>>

(* C22: no batch of term k+1 is dispatched before every batch of term k has  *)
(* completed: when the batches of a later term are submitted, the pool of    *)
(* the previous term holds no future and has counted every batch.            *)
C22_TermsDoNotOverlap ==
    [][(g_pc = "start" /\ g_pc' = "collect" /\ g_term > 1) =>
          (g_pending = {} /\ g_completed = NumBatches
             /\ g_pending' = 1..NumBatches)]_vars

(* The batches of the second term are in flight *)
C22_Witness ==
    /\ g_term = 2
    /\ g_pc = "collect"
    /\ g_pending # {}
    /\ g_results # <<>>

-----------------------------------------------------------------------------
(* search_batch_optimized *)

(* Every robust_api_call of the batch ended by exhausting its retries *)
AllExhausted ==
    /\ o_batch # <<>>
    /\ Len(o_ends) = Len(o_batch)
    /\ \A i \in 1..Len(o_ends) : o_ends[i] = "exhausted"

(* C23: a batch whose every HTTP request failed after exhausting its retries *)
(* is returned as a failed SearchResult (success = FALSE, features_found =   *)
(* 0) and no exception leaves search_batch_optimized.                        *)
C23_FailedBatchReported ==
    (o_pc = "returned" /\ AllExhausted) =>
        (o_ret.success = FALSE /\ o_ret.features_found = 0 /\ o_exc = None)

-----------------------------------------------------------------------------
(* The statistics of robust_api_call *)

(* C24: an invocation that made n >= 1 HTTP attempts raised total_calls by   *)
(* exactly n and retry_attempts by exactly n - 1, whatever the outcome of    *)
(* each attempt; outside an invocation the counters do not move.             *)
C24_CallCounters ==
    /\ Returned => /\ Attempts >= 1
                   /\ Grew("total_calls") = Attempts
                   /\ Grew("retry_attempts") = Attempts - 1
    /\ c_pc = "request" => /\ Grew("total_calls") = Attempts
                           /\ Grew("retry_attempts") = Attempts
    /\ c_pc = "idle" => stats = InitStats

C24_Witness ==
    /\ Returned
    /\ Attempts = 3
    /\ c_hist[1].kind = "connerr"
    /\ IsStatus(c_hist[2], {500})
    /\ IsStatus(c_hist[3], {200})
    /\ stats0.total_calls > 0
    /\ Grew("total_calls") = 3

(* The last attempt of the invocation received HTTP 200 with a JSON array *)
LastIsArray ==
    /\ Attempts >= 1
    /\ IsStatus(c_hist[Attempts], {200})
    /\ c_hist[Attempts].json = "array"

(* C25: the invocation returns success = TRUE only for an attempt that       *)
(* received HTTP 200 with a body that parses as a JSON array; then the       *)
(* payload is that list and successful_calls grew by exactly 1; in every     *)
(* other case it returns (FALSE, []).                                        *)
C25_SuccessOnlyForArray ==
    Returned =>
        IF LastIsArray
        THEN /\ c_ret = <<TRUE, c_hist[Attempts].data>>
             /\ Grew("successful_calls") = 1
        ELSE c_ret = <<FALSE, <<>>>>

-----------------------------------------------------------------------------
(* The delay of safe_rate_limited_delay *)

(* base delay plus failure penalty, in tenths of a second *)
TotalNoJitter(failures) ==
    BaseDelay(failures) + FailurePenalty(GentlePenalty(failures), failures)

(* C26: the base delay is 0.3 s for api_failures <= 5, 0.4 s for 6..10 and   *)
(* 0.6 s above 10; the total delay without jitter is non-decreasing in       *)
(* api_failures and never exceeds 10.6 s (10.9 s with the maximum jitter).   *)
C26_DelayBounds ==
    /\ q_pc \in {"penalty", "total"} =>
          q_base = (IF q_failures <= 5 THEN 3 ELSE IF q_failures <= 10 THEN 4 ELSE 6)
    /\ (q_pc = "done" /\ q_total > 0) =>
          /\ q_total - q_jitter = TotalNoJitter(q_failures)
          /\ q_total - q_jitter <= 106
          /\ q_total <= 109
          /\ \A f \in 0..q_failures : TotalNoJitter(f) <= q_total - q_jitter

(* The cap of the penalty is reached, with the largest jitter *)
C26_Witness ==
    /\ q_pc = "done"
    /\ q_failures > 12
    /\ q_jitter = 3
    /\ q_total = 109

(* The attempt ended in the except clause of ConnectionError (128) or of    *)
(* Exception (134): a connection error, or any other exception such as       *)
(* response.json() failing on a 200 body                                     *)
Unrecorded(o) ==
    \/ o.kind \in {"connerr", "other"}
    \/ IsStatus(o, {200}) /\ o.json = "invalid"

Classified(s) == s.successful_calls + s.timeout_errors + s.http_errors

(* C27: successful_calls + timeout_errors + http_errors <= total_calls, and  *)
(* over every invocation the gap between the two sides grows exactly by the  *)
(* number of its attempts that ended in a connection error or an             *)
(* unclassified exception.                                                   *)
C27_CountersAddUp ==
    /\ Classified(stats) <= stats.total_calls
    /\ Classified(stats0) <= stats0.total_calls
    /\ c_pc \in {"loop", "returned"} =>
          (stats.total_calls - Classified(stats)) - (stats0.total_calls - Classified(stats0))
              = Cardinality({i \in 1..Len(c_hist) : Unrecorded(c_hist[i])})

(* A second invocation returned with two unrecorded attempts and one         *)
(* recorded one, after a first invocation that left no gap                   *)
C27_Witness ==
    /\ Returned
    /\ stats0.total_calls = 1
    /\ Classified(stats0) = 1
    /\ stats.total_calls - Classified(stats) = 2
    /\ Attempts = 3
    /\ \E i, j \in 1..Len(c_hist) : c_hist[i].kind = "connerr" /\ c_hist[j].kind = "other"
    /\ stats.successful_calls > 0

(* A response whose status is neither 200 nor 400 *)
OtherStatus(o) == o.kind = "status" /\ o.code \notin {200, 400}

(* C28: HTTP 400 is the only status that stops retrying: an attempt that     *)
(* received 400 is the last one of its invocation, while after any other     *)
(* non-200 status (401, 403, 404, 500 as well as 429, 503, 504) the          *)
(* invocation goes on unless that was attempt max_retries + 1; every non-200 *)
(* response increments http_errors by 1.                                     *)
C28_Only400Stops ==
    /\ \A i \in 1..Len(c_hist) :
          /\ IsStatus(c_hist[i], {400}) => (i = Attempts /\ Returned)
          /\ (OtherStatus(c_hist[i]) /\ i = Attempts /\ Returned) =>
                (i = max_retries + 1 /\ c_ret = <<FALSE, <<>>>>)
    /\ Grew("http_errors") =
          Cardinality({i \in 1..Len(c_hist) : c_hist[i].kind = "status" /\ c_hist[i].code # 200})

(* 401, 403, 404 and 500 in turn, every one retried and counted *)
C28_Witness ==
    /\ Returned
    /\ Attempts = max_retries + 1
    /\ IsStatus(c_hist[1], {401})
    /\ IsStatus(c_hist[2], {403})
    /\ IsStatus(c_hist[3], {404})
    /\ IsStatus(c_hist[4], {500})
    /\ Grew("http_errors") = 4
    /\ c_ret = <<FALSE, <<>>>>

-----------------------------------------------------------------------------
(* Properties of the term summaries of batch_search_across_genomes *)

(* Every robust_api_call of term i was made and returned (True, []) *)
TermAllEmpty(i) ==
    /\ Len(s_http[i]) = Len(s_genomes)
    /\ \A n \in 1..Len(s_http[i]) : s_http[i][n].success /\ s_http[i][n].count = 0

(* Every robust_api_call of term i was made and returned (False, []) *)
TermAllFailed(i) ==
    /\ Len(s_http[i]) = Len(s_genomes)
    /\ \A n \in 1..Len(s_http[i]) : ~s_http[i][n].success

(* The summary of a term with no feature and a zero for every genome *)
ZeroSummary(i) ==
    [search_term |-> s_terms[i], search_type |-> s_type, track_name |-> SearchTrack,
     genomes_searched |-> Len(s_genomes), features_found |-> 0, success |-> FALSE,
     features |-> <<>>, genome_coverage |-> [g \in Range(s_genomes) |-> 0]]

(* C29: in every term summary features_found = len(features) and success is *)
(* TRUE exactly when features_found > 0; a term whose requests all succeeded *)
(* with no hits and a term whose requests all failed both get the summary    *)
(* with success = FALSE and an all-zero genome_coverage.                     *)
C29_SummaryConsistent ==
    \A i \in 1..Len(s_all) :
        /\ s_all[i].features_found = Len(s_all[i].features)
        /\ s_all[i].success <=> (s_all[i].features_found > 0)
        /\ (TermAllEmpty(i) \/ TermAllFailed(i)) => s_all[i] = ZeroSummary(i)

(* One term answered with empty arrays, the other failed on every genome *)
C29_Witness ==
    /\ s_pc = "done"
    /\ Len(s_all) = 2
    /\ Len(s_genomes) = 2
    /\ TermAllEmpty(1)
    /\ TermAllFailed(2)
    /\ s_all[1].genome_coverage = s_all[2].genome_coverage
    /\ ~s_all[1].success /\ ~s_all[2].success

-----------------------------------------------------------------------------
(* Properties of search_batch_safe *)

(* C30: search_batch_safe makes at most 8 attempts for a batch, each         *)
(* preceded by exactly one safe_rate_limited_delay call; after the 8th       *)
(* failing attempt it returns [] without sleeping again, and the collector   *)
(* counts that batch as completed while adding no result for it.             *)
C30_EightAttempts ==
    /\ w_try < batch_max_retries
    /\ w_acquires <= batch_max_retries
    /\ w_acquires = IF w_pc = "acquire" THEN w_try ELSE w_try + 1
    /\ w_sleeps = w_try
    /\ w_ret = "empty" => /\ w_acquires = batch_max_retries
                          /\ w_sleeps = batch_max_retries - 1
    /\ (w_pc = "collected" /\ w_ret = "empty") => (w_completed = 1 /\ w_added = 0)

(* The batch failed 8 times and was collected *)
C30_Witness ==
    /\ w_pc = "collected"
    /\ w_ret = "empty"
    /\ w_acquires = 8
    /\ w_sleeps = 7
    /\ w_completed = 1
    /\ w_added = 0
    /\ Len(w_batch) = 2

====
